---- MODULE Spec2Model ----
(***************************************************************************)
(* A model of worktree-launcher (the `wt` command line tool): the git      *)
(* helpers of utils/git.ts, the list, clean, remove and new commands, and  *)
(* the interactive session of commands/interactive.ts.                     *)
(*                                                                         *)
(* Text is modelled as a sequence of atoms.  An atom is one character,     *)
(* except for a few indivisible blocks: Run (a block of RunLen letters,    *)
(* used to build names around the 250 character limit) and the keywords    *)
(* of git's output ("origin", "refs/heads/", "worktree ", ...).            *)
(***************************************************************************)
EXTENDS Integers, Sequences, FiniteSets, TLC

\* ---------------------------------------------------------------- bounds
\* Longest branch name, in atoms, given to validateBranchName.
MaxNameLen == 3
\* Number of letters in the atom Run.
RunLen == 249
\* Longest file name, in atoms, found in the source directory.
MaxFileLen == 6

\* ------------------------------------------------------------------ text
Run == "aaa~"

Width(c) == IF c = Run THEN RunLen ELSE 1

RECURSIVE StrLen(_)
\* String.prototype.length
StrLen(s) == IF s = <<>> THEN 0 ELSE Width(Head(s)) + StrLen(Tail(s))

IsSpace(c) == c = " "

RECURSIVE TrimStart(_)
TrimStart(s) ==
  IF s # <<>> /\ IsSpace(Head(s)) THEN TrimStart(Tail(s)) ELSE s

RECURSIVE TrimEnd(_)
TrimEnd(s) ==
  IF s # <<>> /\ IsSpace(s[Len(s)]) THEN TrimEnd(SubSeq(s, 1, Len(s) - 1)) ELSE s

\* String.prototype.trim
Trim(s) == TrimEnd(TrimStart(s))

\* String.prototype.startsWith
StartsWith(s, p) == Len(p) <= Len(s) /\ SubSeq(s, 1, Len(p)) = p

\* String.prototype.endsWith
EndsWith(s, p) == Len(p) <= Len(s) /\ SubSeq(s, Len(s) - Len(p) + 1, Len(s)) = p

\* String.prototype.indexOf: the first position where p occurs in s, 0 if none
IndexOf(s, p) ==
  LET hits == {i \in 1..(Len(s) - Len(p) + 1) : SubSeq(s, i, i + Len(p) - 1) = p}
  IN IF hits = {} THEN 0 ELSE CHOOSE i \in hits : \A j \in hits : i <= j

\* String.prototype.includes
Includes(s, p) == IndexOf(s, p) # 0

\* String.prototype.replace(p, r) with a string pattern: the first occurrence only
Replace(s, p, r) ==
  LET i == IndexOf(s, p)
  IN IF i = 0 THEN s
     ELSE SubSeq(s, 1, i - 1) \o r \o SubSeq(s, i + Len(p), Len(s))

\* ------------------------------------------------------ validateBranchName
MaxBranchLen == 250

Ok == "ok"
ErrEmpty == "Branch name cannot be empty"
ErrDash == "Branch name cannot start with -"
ErrDots == "Branch name cannot contain .."
ErrLong == "Branch name too long (max 250 characters)"

\* A slip of validateBranchName: only a leading `..` is looked for.
validateBranchNameLeadingDots(branchName) ==
  IF branchName = <<>> \/ Trim(branchName) = <<>> THEN ErrEmpty
  ELSE IF StartsWith(branchName, <<"-">>) THEN ErrDash
  ELSE IF StartsWith(branchName, <<".", ".">>) THEN ErrDots
  ELSE IF StrLen(branchName) > MaxBranchLen THEN ErrLong
  ELSE Ok

\* A slip of validateBranchName: a leading `-` is let through.
validateBranchNameDashAllowed(branchName) ==
  IF branchName = <<>> \/ Trim(branchName) = <<>> THEN ErrEmpty
  ELSE IF Includes(branchName, <<".", ".">>) THEN ErrDots
  ELSE IF StrLen(branchName) > MaxBranchLen THEN ErrLong
  ELSE Ok

\* The message of the Error validateBranchName throws, Ok when it returns.
validateBranchName(branchName) ==
  IF branchName = <<>> \/ Trim(branchName) = <<>> THEN ErrEmpty
  ELSE IF StartsWith(branchName, <<"-">>) THEN ErrDash
  ELSE IF Includes(branchName, <<".", ".">>) THEN ErrDots
  ELSE IF StrLen(branchName) > MaxBranchLen THEN ErrLong
  ELSE Ok

\* ------------------------------------------------------------ the world
\* The repository as git knows it: its worktree entries in listing order,
\* the primary worktree first.  kind is "branch" (HEAD on a branch),
\* "detached", "broken" (HEAD cannot be resolved) or "bare".
Main == <<"m">>
Undefined == <<"<undefined>">>
PrimaryPath == <<"/", "c", "/", "r">>
LinkedPath(name) == <<"/", "c", "/", "r", "-">> \o name
LinkedNames == {<<"a">>, <<"b">>}
Branches == {<<"a">>, <<"b">>}

Entry(path, kind, branch) == [path |-> path, kind |-> kind, branch |-> branch]

PrimaryEntries ==
  {Entry(PrimaryPath, "branch", Main), Entry(PrimaryPath, "bare", Undefined)}

LinkedEntries(name) ==
  {Entry(LinkedPath(name), "branch", b) : b \in Branches}
    \cup {Entry(LinkedPath(name), "detached", Undefined),
          Entry(LinkedPath(name), "broken", Undefined)}

Range(f) == {f[i] : i \in DOMAIN f}

\* Paths are distinct, and git checks a branch out in one worktree only.
WellFormed(r) ==
  /\ \A i, j \in DOMAIN r : r[i].path = r[j].path => i = j
  /\ \A i, j \in DOMAIN r :
       (r[i].kind = "branch" /\ r[j].kind = "branch" /\ r[i].branch = r[j].branch)
         => i = j

Repos ==
  LET a == LinkedEntries(<<"a">>)
      b == LinkedEntries(<<"b">>)
      all == {<<p>> : p \in PrimaryEntries}
               \cup {<<p, x>> : p \in PrimaryEntries, x \in a \cup b}
               \cup {<<p, x, y>> : p \in PrimaryEntries, x \in a, y \in b}
  IN {r \in all : WellFormed(r)}

\* A directory that is in no repository.
Outside == <<"/", "t">>

\* The directories of the repository the tool can be started from: inside any
\* worktree that has a working directory.
StartDirs(r) == {e.path : e \in {x \in Range(r) : x.kind # "bare"}}

\* What the environment answers to the queries of one command.  plusMarker
\* tells whether the installed git marks a branch that is checked out in
\* another worktree with `+ ` (git 2.23 and later) or leaves it unmarked.
GitEnvs ==
  [merged : SUBSET Branches,
   remote : SUBSET {<<"origin", "/", "a">>, <<"origin", "/", "b">>,
                    <<"origin", "/", "x", "/", "a">>},
   mergedFails : BOOLEAN,
   remoteFails : BOOLEAN,
   plusMarker : BOOLEAN]

NoEnv ==
  [merged |-> {}, remote |-> {}, mergedFails |-> FALSE, remoteFails |-> FALSE,
   plusMarker |-> TRUE]

\* ------------------------------------------------------- git's answers
\* git rev-parse --show-toplevel: the root of the worktree the command is
\* run in, which is a linked worktree's own directory when started there.
GitShowToplevel(dir) == dir

\* git rev-parse --git-dir: fails outside a repository.
GitRevParseGitDir(dir, r) == dir \in StartDirs(r)

\* git worktree list --porcelain: the lines of one entry.  A bare entry has
\* no HEAD line; a worktree whose HEAD cannot be resolved has a HEAD line
\* and neither a branch nor a detached line.
PorcelainEntry(e) ==
  << <<"worktree ">> \o e.path >>
    \o (IF e.kind = "bare" THEN << <<"bare">> >>
        ELSE << <<"HEAD ", "h">> >>
               \o (IF e.kind = "branch"
                     THEN << <<"branch ", "refs/heads/">> \o e.branch >>
                   ELSE IF e.kind = "detached" THEN << <<"detached">> >>
                   ELSE <<>>))
    \o << <<>> >>

RECURSIVE GitWorktreeListPorcelain(_)
GitWorktreeListPorcelain(r) ==
  IF r = <<>> THEN <<>>
  ELSE PorcelainEntry(Head(r)) \o GitWorktreeListPorcelain(Tail(r))

\* git branch --merged <default>: one line per merged branch (the default
\* branch itself is among them), marked `* ` when it is checked out in the
\* worktree the command runs in and `+ ` when in another worktree.
BranchMarker(b, r, dir) ==
  IF \E e \in Range(r) : e.kind = "branch" /\ e.branch = b /\ e.path = dir
    THEN <<"*", " ">>
  ELSE IF \E e \in Range(r) : e.kind = "branch" /\ e.branch = b
    THEN <<"+", " ">>
  ELSE <<" ", " ">>

GitBranchMerged(r, dir, env) ==
  {(IF BranchMarker(b, r, dir) = <<"+", " ">> /\ ~env.plusMarker
      THEN <<" ", " ">>
    ELSE BranchMarker(b, r, dir)) \o b : b \in env.merged \cup {Main}}
    \cup {<<>>}

\* git branch -r
GitBranchRemote(env) == {<<" ", " ">> \o n : n \in env.remote} \cup {<<>>}

\* git worktree remove: git refuses to remove the main working tree, forced
\* or not; a linked one may go at once ("plain"), only when forced
\* ("forced", it has changes) or not at all ("fail", it is locked).
RemovalOutcomes(path) ==
  IF path = PrimaryPath THEN {"fail"} ELSE {"plain", "forced", "fail"}

\* ---------------------------------------------------------- utils/git.ts
\* A slip of isGitRepo: the failure of the query is not looked at.
isGitRepoAlways(dir, r) == TRUE

\* try { git rev-parse --git-dir; return true } catch { return false }
isGitRepo(dir, r) == GitRevParseGitDir(dir, r)

Truthy(s) == s # Undefined /\ s # <<>>

NoRecord ==
  [path |-> Undefined, branch |-> Undefined, head |-> Undefined,
   bare |-> FALSE, detached |-> FALSE]

PushIfPath(acc, current) ==
  IF Truthy(current.path) THEN Append(acc, current) ELSE acc

RECURSIVE ParseLines(_, _, _)
ParseLines(lines, acc, current) ==
  IF lines = <<>> THEN PushIfPath(acc, current)
  ELSE LET line == Head(lines)
           rest == Tail(lines)
       IN IF StartsWith(line, <<"worktree ">>)
            THEN ParseLines(rest, PushIfPath(acc, current),
                            [path |-> Tail(line), branch |-> Undefined,
                             head |-> Undefined, bare |-> FALSE,
                             detached |-> FALSE])
          ELSE IF StartsWith(line, <<"HEAD ">>)
            THEN ParseLines(rest, acc, [current EXCEPT !.head = Tail(line)])
          ELSE IF StartsWith(line, <<"branch ">>)
            THEN ParseLines(rest, acc,
                   [current EXCEPT
                      !.branch = Replace(Tail(line), <<"refs/heads/">>, <<>>)])
          ELSE IF line = <<"bare">>
            THEN ParseLines(rest, acc, [current EXCEPT !.bare = TRUE])
          ELSE IF line = <<"detached">>
            THEN ParseLines(rest, acc, [current EXCEPT !.detached = TRUE])
          ELSE ParseLines(rest, acc, current)

\* A slip of listWorktrees: the entry still held after the last line is
\* not pushed.
listWorktreesWithoutLast(stdout) ==
  LET pushed == ParseLines(stdout, <<>>, NoRecord)
  IN SubSeq(pushed, 1, Len(pushed) - 1)

listWorktrees(stdout) == ParseLines(stdout, <<>>, NoRecord)

isBranchMerged(branchName, stdout, fails) ==
  /\ ~fails
  /\ branchName \in {Replace(Trim(b), <<"*", " ">>, <<>>) : b \in stdout}

remoteBranchExists(branchName, stdout, fails) ==
  /\ ~fails
  /\ \E line \in stdout :
       LET b == Trim(line)
       IN \/ b = <<"origin", "/">> \o branchName
          \/ EndsWith(b, <<"/">> \o branchName)

\* path.basename
Basename(path) ==
  LET slashes == {i \in 1..Len(path) : path[i] = "/"}
      last == IF slashes = {} THEN 0
              ELSE CHOOSE i \in slashes : \A j \in slashes : j <= i
  IN SubSeq(path, last + 1, Len(path))

Matches(wt, identifier) ==
  \/ wt.branch = identifier
  \/ wt.path = identifier
  \/ Basename(wt.path) = identifier
  \/ EndsWith(wt.path, identifier)

\* Array.prototype.find: the first match, NoRecord for undefined
findWorktree(identifier, wts) ==
  LET hits == {i \in DOMAIN wts : Matches(wts[i], identifier)}
  IN IF hits = {} THEN NoRecord
     ELSE wts[CHOOSE i \in hits : \A j \in hits : i <= j]

\* A slip of getWorktreeStatus: the remote is looked at before the merge.
getWorktreeStatusRemoteFirst(branch, detached, isMain, r, dir, env) ==
  IF isMain THEN "main"
  ELSE IF detached THEN "detached"
  ELSE IF ~Truthy(branch) THEN "unknown"
  ELSE IF ~remoteBranchExists(branch, GitBranchRemote(env), env.remoteFails)
    THEN "local only"
  ELSE IF isBranchMerged(branch, GitBranchMerged(r, dir, env), env.mergedFails)
    THEN "merged"
  ELSE "active"

\* ------------------------------------------------------ commands/list.ts
\* A classifier for which a record without a branch is detached.
getWorktreeStatusNoBranchDetached(branch, detached, isMain, r, dir, env) ==
  IF isMain THEN "main"
  ELSE IF detached \/ ~Truthy(branch) THEN "detached"
  ELSE LET existsOnRemote ==
             remoteBranchExists(branch, GitBranchRemote(env), env.remoteFails)
           isMerged ==
             isBranchMerged(branch, GitBranchMerged(r, dir, env), env.mergedFails)
       IN IF isMerged THEN "merged"
          ELSE IF ~existsOnRemote THEN "local only"
          ELSE "active"

getWorktreeStatus(branch, detached, isMain, r, dir, env) ==
  IF isMain THEN "main"
  ELSE IF detached THEN "detached"
  ELSE IF ~Truthy(branch) THEN "unknown"
  ELSE LET existsOnRemote ==
             remoteBranchExists(branch, GitBranchRemote(env), env.remoteFails)
           isMerged ==
             isBranchMerged(branch, GitBranchMerged(r, dir, env), env.mergedFails)
       IN IF isMerged THEN "merged"
          ELSE IF ~existsOnRemote THEN "local only"
          ELSE "active"

\* ----------------------------------------------------- commands/clean.ts
RECURSIVE FindStale(_, _, _, _, _)
FindStale(wts, root, r, dir, env) ==
  IF wts = <<>> THEN <<>>
  ELSE LET wt == Head(wts)
           rest == FindStale(Tail(wts), root, r, dir, env)
       IN IF wt.path = root THEN rest
          ELSE IF wt.detached \/ wt.bare \/ ~Truthy(wt.branch) THEN rest
          ELSE IF isBranchMerged(wt.branch, GitBranchMerged(r, dir, env),
                                 env.mergedFails)
            THEN <<[wt |-> wt, reason |-> "merged"]>> \o rest
          ELSE IF ~remoteBranchExists(wt.branch, GitBranchRemote(env),
                                      env.remoteFails)
            THEN <<[wt |-> wt, reason |-> "local-only"]>> \o rest
          ELSE rest

\* ------------------------------------------------- external operations
\* One external operation: the request (the command, or the handler of the
\* interactive session) that issued it, and its result: "ok", "fail", or
\* "pending" while the child process runs.
Call(req, op, path, force, result) ==
  [req |-> req, op |-> op, path |-> path, force |-> force, result |-> result,
   tool |-> "none"]

\* An operation on an assistant: `which <tool>`, or the spawn of the tool.
ToolCall(req, op, path, tool, result) ==
  [Call(req, op, path, FALSE, result) EXCEPT !.tool = tool]

Res(ok) == IF ok THEN "ok" ELSE "fail"

\* A fallback that tries the forced removal a second time when it failed.
RemoveWithRepeatedFallback(req, path, outcome) ==
  <<Call(req, "remove", path, FALSE, Res(outcome = "plain"))>>
    \o (IF outcome = "plain" THEN <<>>
        ELSE <<Call(req, "remove", path, TRUE, Res(outcome = "forced"))>>)
    \o (IF outcome = "fail"
          THEN <<Call(req, "remove", path, TRUE, "fail")>>
        ELSE <<>>)

\* try { removeWorktree(path, false) } catch { removeWorktree(path, true) }
RemoveWithFallback(req, path, outcome) ==
  <<Call(req, "remove", path, FALSE, Res(outcome = "plain"))>>
    \o (IF outcome = "plain" THEN <<>>
        ELSE <<Call(req, "remove", path, TRUE, Res(outcome = "forced"))>>)

\* The entries left after the calls that succeeded.
RECURSIVE WithoutPaths(_, _)
WithoutPaths(r, gone) ==
  IF r = <<>> THEN <<>>
  ELSE (IF Head(r).path \in gone THEN <<>> ELSE <<Head(r)>>)
         \o WithoutPaths(Tail(r), gone)

Removed(cs) == {c.path : c \in {x \in Range(cs) : x.op = "remove" /\ x.result = "ok"}}

\* ---------------------------------------------------------------- state
VARIABLES
  input,         \* the argument of the pure function under check
  output,        \* its result, "none" before the call
  returned,      \* the value it returned, <<>> before the call
  repo,          \* the worktree entries git knows, in listing order
  cwd,           \* the worktree the tool was started in
  gitEnv,        \* the environment's answers to the branch queries
  cmd,           \* the command line: [name, identifier, force]
  pc,            \* the position of the command
  mainRepoPath,  \* commands/*.ts: const mainRepoPath = await getGitRoot()
  worktrees,     \* the records listWorktrees returned
  statuses,      \* list: the status printed for each record
  staleWorktrees,\* clean: the candidates, with their reason
  selected,      \* clean: the user's selection; remove: the worktree found
  confirmed,     \* the confirmation prompt: "unasked", "pending", "yes", "no"
  exitCode,      \* process.exit code, -1 while running
  calls,         \* the external operations issued so far, in order
  screen,        \* interactive: "none", "open" or "destroyed"
  focus,         \* interactive: the element focus() was last called on
  statusBar,     \* interactive: the content of the status bar
  selectedIndex, \* interactive: let selectedIndex = 0
  moves,         \* interactive: the selections the user has made
  tasks          \* interactive: the handlers started so far, with their position

pureVars == <<input, output, returned>>
worldVars == <<repo, cwd>>
cliVars == <<gitEnv, cmd, pc, mainRepoPath, worktrees, statuses, staleWorktrees,
             selected, confirmed, exitCode, calls>>
uiVars == <<screen, focus, statusBar, selectedIndex, moves, tasks>>
vars == <<pureVars, worldVars, cliVars, uiVars>>

NameAtoms == {" ", "-", ".", "/", "a", Run}

Names == UNION {[1..n -> NameAtoms] : n \in 0..MaxNameLen}

\* A command line: the command, its argument and its options.
\* A command line; push tells whether -p or --push was written on it.
Cmd(name, identifier, force, install, skipLaunch) ==
  [name |-> name, identifier |-> identifier, force |-> force,
   install |-> install, skipLaunch |-> skipLaunch, push |-> FALSE]

NoCmd == Cmd("none", <<>>, FALSE, FALSE, FALSE)

Status(kind, text) == [kind |-> kind, text |-> text]
NoStatus == Status("", <<>>)

UiIdle ==
  /\ screen = "none"
  /\ focus = "none"
  /\ statusBar = NoStatus
  /\ selectedIndex = 0
  /\ moves = 0
  /\ tasks = <<>>

CliIdle ==
  /\ gitEnv = NoEnv
  /\ cmd = NoCmd
  /\ pc = "idle"
  /\ mainRepoPath = <<>>
  /\ worktrees = <<>>
  /\ statuses = <<>>
  /\ staleWorktrees = <<>>
  /\ selected = <<>>
  /\ confirmed = "unasked"
  /\ exitCode = -1
  /\ calls = <<>>

\* ------------------------------------------- specification: validation
InitValidate ==
  /\ input \in Names
  /\ output = "none"
  /\ returned = <<>>
  /\ repo = <<Entry(PrimaryPath, "branch", Main)>>
  /\ cwd = PrimaryPath
  /\ CliIdle
  /\ UiIdle

CallValidate ==
  /\ output = "none"
  /\ output' = validateBranchName(input)
  /\ UNCHANGED <<input, returned, worldVars, cliVars, uiVars>>

NextValidate == CallValidate

SpecValidate == InitValidate /\ [][NextValidate]_vars

\* ------------------------------------------- specification: the commands
Identifiers ==
  {<<>>, <<"a">>, <<"b">>, Main, <<"r">>, <<"z">>, <<"r", "-", "a">>,
   PrimaryPath, LinkedPath(<<"a">>)}

Commands ==
  {Cmd(n, <<>>, FALSE, FALSE, FALSE) : n \in {"list", "clean"}}
    \cup {Cmd("remove", i, f, FALSE, FALSE) : i \in Identifiers, f \in BOOLEAN}

Interactive == Cmd("interactive", <<>>, FALSE, FALSE, FALSE)

\* wt new <branch-name> [--install] [--skip-launch] [--push]
NewBranchNames == {<<"a">>, <<"c">>, <<"-">>}

NewCommands ==
  {[Cmd("new", b, FALSE, i, s) EXCEPT !.push = p] :
     b \in NewBranchNames, i \in BOOLEAN, s \in BOOLEAN, p \in BOOLEAN}

\* The repositories an interactive session is started in: a primary worktree
\* on the default branch and at most one linked worktree, on a branch or
\* detached.
SessionRepos ==
  {r \in Repos :
     /\ r[1].kind = "branch"
     /\ Len(r) <= 2
     /\ \A i \in DOMAIN r :
          i > 1 => /\ r[i].path = LinkedPath(<<"a">>)
                   /\ r[i].kind \in {"branch", "detached"}
                   /\ r[i].branch \in {<<"a">>, Undefined}}

Init ==
  /\ input = <<>>
  /\ output = "none"
  /\ returned = <<>>
  /\ \/ cmd \in Commands /\ repo \in Repos
     \/ cmd \in NewCommands \cup {Interactive} /\ repo \in SessionRepos
  /\ cwd \in StartDirs(repo) \cup {Outside}
  /\ gitEnv = NoEnv
  /\ pc = "start"
  /\ mainRepoPath = <<>>
  /\ worktrees = <<>>
  /\ statuses = <<>>
  /\ staleWorktrees = <<>>
  /\ selected = <<>>
  /\ confirmed = "unasked"
  /\ exitCode = -1
  /\ calls = <<>>
  /\ UiIdle

\* if (!await isGitRepo()) { console.error(...); process.exit(1) }
NotARepository(name) ==
  /\ cmd.name = name
  /\ pc = "start"
  /\ ~isGitRepo(cwd, repo)
  /\ pc' = "done"
  /\ exitCode' = 1
  /\ UNCHANGED <<pureVars, worldVars, uiVars, gitEnv, cmd, mainRepoPath,
                 worktrees, statuses, staleWorktrees, selected, confirmed,
                 calls>>

ListCall == Call(1, "list", <<>>, FALSE, "ok")
PruneCall == Call(1, "prune", <<>>, FALSE, "ok")

\* listCommand
ListCommand ==
  \/ NotARepository("list")
  \/ /\ cmd.name = "list"
     /\ pc = "start"
     /\ isGitRepo(cwd, repo)
     /\ \E env \in GitEnvs :
          LET root == GitShowToplevel(cwd)
              wts == listWorktrees(GitWorktreeListPorcelain(repo))
          IN /\ gitEnv' = env
             /\ mainRepoPath' = root
             /\ worktrees' = wts
             /\ statuses' =
                  [i \in DOMAIN wts |->
                     getWorktreeStatus(wts[i].branch, wts[i].detached,
                                       wts[i].path = root, repo, cwd, env)]
     /\ calls' = Append(calls, ListCall)
     /\ pc' = "done"
     /\ exitCode' = 0
     /\ UNCHANGED <<pureVars, uiVars, worldVars, cmd, staleWorktrees, selected, confirmed>>

\* cleanCommand, up to the checkbox prompt
CleanScan ==
  \/ NotARepository("clean")
  \/ /\ cmd.name = "clean"
     /\ pc = "start"
     /\ isGitRepo(cwd, repo)
     /\ \E env \in GitEnvs :
          LET root == GitShowToplevel(cwd)
              wts == listWorktrees(GitWorktreeListPorcelain(repo))
              stale == FindStale(wts, root, repo, cwd, env)
          IN /\ gitEnv' = env
             /\ mainRepoPath' = root
             /\ worktrees' = wts
             /\ staleWorktrees' = stale
             /\ IF stale = <<>>
                  THEN pc' = "done" /\ exitCode' = 0
                  ELSE pc' = "select" /\ exitCode' = exitCode
     /\ calls' = calls \o <<PruneCall, ListCall>>
     /\ UNCHANGED <<pureVars, uiVars, worldVars, cmd, statuses, selected, confirmed>>

\* The subsequence of s at the positions in idx.
RECURSIVE Pick(_, _, _)
Pick(s, idx, i) ==
  IF i > Len(s) THEN <<>>
  ELSE (IF i \in idx THEN <<s[i]>> ELSE <<>>) \o Pick(s, idx, i + 1)

\* cleanCommand: the user answers the checkbox prompt
CleanSelect ==
  /\ cmd.name = "clean"
  /\ pc = "select"
  /\ \E idx \in SUBSET (DOMAIN staleWorktrees) :
       /\ selected' = Pick(staleWorktrees, idx, 1)
       /\ IF idx = {}
            THEN pc' = "done" /\ exitCode' = 0 /\ confirmed' = confirmed
            ELSE pc' = "confirm" /\ exitCode' = exitCode /\ confirmed' = "pending"
  /\ UNCHANGED <<pureVars, uiVars, worldVars, gitEnv, cmd, mainRepoPath, worktrees,
                 statuses, staleWorktrees, calls>>

RECURSIVE RemoveAll(_, _)
\* for (const wt of selected) { try plain, catch: try forced }
RemoveAll(sel, outcome) ==
  IF sel = <<>> THEN <<>>
  ELSE RemoveWithFallback(1, Head(sel).wt.path, outcome[Head(sel).wt.path])
         \o RemoveAll(Tail(sel), outcome)

\* cleanCommand: the user answers the confirmation; on yes the removal loop
CleanConfirm ==
  /\ cmd.name = "clean"
  /\ pc = "confirm"
  /\ \E yes \in BOOLEAN :
       IF ~yes
         THEN /\ confirmed' = "no"
              /\ UNCHANGED <<repo, calls>>
         ELSE /\ confirmed' = "yes"
              /\ LET paths == {x.wt.path : x \in Range(selected)}
                 IN \E outcome \in [paths -> {"plain", "forced", "fail"}] :
                      /\ \A q \in paths : outcome[q] \in RemovalOutcomes(q)
                      /\ calls' = calls \o RemoveAll(selected, outcome)
                      /\ repo' = WithoutPaths(repo,
                                   Removed(RemoveAll(selected, outcome)))
  /\ pc' = "done"
  /\ exitCode' = 0
  /\ UNCHANGED <<pureVars, uiVars, cwd, gitEnv, cmd, mainRepoPath, worktrees, statuses,
                 staleWorktrees, selected>>

\* removeCommand, up to the confirmation prompt
RemoveFind ==
  \/ NotARepository("remove")
  \/ /\ cmd.name = "remove"
     /\ pc = "start"
     /\ isGitRepo(cwd, repo)
     /\ LET root == GitShowToplevel(cwd)
            wts == listWorktrees(GitWorktreeListPorcelain(repo))
            worktree == findWorktree(cmd.identifier, wts)
        IN /\ mainRepoPath' = root
           /\ worktrees' = wts
           /\ IF worktree = NoRecord
                THEN /\ pc' = "done" /\ exitCode' = 1
                     /\ UNCHANGED <<selected, confirmed>>
              ELSE IF worktree.path = root
                THEN /\ pc' = "done" /\ exitCode' = 1
                     /\ UNCHANGED <<selected, confirmed>>
              ELSE /\ selected' = <<[wt |-> worktree, reason |-> "remove"]>>
                   /\ exitCode' = exitCode
                   /\ IF ~cmd.force
                        THEN pc' = "confirm" /\ confirmed' = "pending"
                        ELSE pc' = "remove" /\ confirmed' = confirmed
     /\ calls' = Append(calls, ListCall)
     /\ UNCHANGED <<pureVars, uiVars, worldVars, gitEnv, cmd, statuses, staleWorktrees>>

\* A prompt whose answer is not looked at.
RemoveConfirmAnyAnswer ==
  /\ cmd.name = "remove"
  /\ pc = "confirm"
  /\ \E yes \in BOOLEAN :
       /\ confirmed' = (IF yes THEN "yes" ELSE "no")
       /\ pc' = "remove"
       /\ exitCode' = exitCode
  /\ UNCHANGED <<pureVars, uiVars, worldVars, gitEnv, cmd, mainRepoPath, worktrees,
                 statuses, staleWorktrees, selected, calls>>

\* removeCommand: the user answers the confirmation
RemoveConfirm ==
  /\ cmd.name = "remove"
  /\ pc = "confirm"
  /\ \E yes \in BOOLEAN :
       IF yes
         THEN confirmed' = "yes" /\ pc' = "remove" /\ exitCode' = exitCode
         ELSE confirmed' = "no" /\ pc' = "done" /\ exitCode' = 0
  /\ UNCHANGED <<pureVars, uiVars, worldVars, gitEnv, cmd, mainRepoPath, worktrees,
                 statuses, staleWorktrees, selected, calls>>

\* A slip of the catch: the forced removal is tried without --force too.
RemoveCommandCallsAlwaysForced(path, force, outcome) ==
  RemoveWithFallback(1, path, outcome)

\* try { removeWorktree(path, false) }
\* catch { if (options.force) removeWorktree(path, true) else exit(1) }
RemoveCommandCalls(path, force, outcome) ==
  IF force THEN RemoveWithFallback(1, path, outcome)
  ELSE <<Call(1, "remove", path, FALSE, Res(outcome = "plain"))>>

\* removeCommand: the removal
RemoveDo ==
  /\ cmd.name = "remove"
  /\ pc = "remove"
  /\ LET path == selected[1].wt.path
     IN \E outcome \in RemovalOutcomes(path) :
          LET cs == RemoveCommandCalls(path, cmd.force, outcome)
          IN /\ calls' = calls \o cs
             /\ repo' = WithoutPaths(repo, Removed(cs))
             /\ exitCode' = IF cs[Len(cs)].result = "ok" THEN 0 ELSE 1
  /\ pc' = "done"
  /\ UNCHANGED <<pureVars, uiVars, cwd, gitEnv, cmd, mainRepoPath, worktrees, statuses,
                 staleWorktrees, selected, confirmed>>

\* --------------------------------------------- commands/interactive.ts
\* Handlers of the session that may be started in one run.
MaxTasks == 2
\* Times the user moves the selection of the list in one run.
MaxMoves == 1

sessionFixed ==
  <<pureVars, cwd, gitEnv, cmd, statuses, staleWorktrees, selected, confirmed,
    calls>>

\* One started handler.  pc is the await it is suspended at ("done" when it
\* has returned), dialog the box it has on the screen, ops the external
\* operations it has issued, the last of them the one it awaits.
Task(kind, at, dialog, path, branch) ==
  [kind |-> kind, pc |-> at, dialog |-> dialog, path |-> path,
   branch |-> branch, tool |-> "none", confirmed |-> "unasked",
   failed |-> FALSE, endStatus |-> NoStatus, ops |-> <<>>]

Done(task, st) == [task EXCEPT !.pc = "done", !.endStatus = st]

Issued(task, t, op, path, force) ==
  [task EXCEPT !.ops = Append(task.ops, Call(t, op, path, force, "pending"))]

IssuedTool(task, t, op) ==
  [task EXCEPT !.ops = Append(task.ops,
                              ToolCall(t, op, task.path, task.tool, "pending"))]

Settled(task, ok) ==
  [task EXCEPT !.ops = [task.ops EXCEPT ![Len(task.ops)].result = Res(ok)]]

Alive == cmd.name = "interactive" /\ pc = "session" /\ screen = "open"

\* While the textbox of the new-worktree form reads input, what is typed goes
\* to the branch name and not to the key bindings of the screen.
Typing == \E t \in DOMAIN tasks : tasks[t].pc = "form"

KeysOpen == Alive /\ ~Typing

CanStart == Len(tasks) < MaxTasks

\* worktrees[selectedIndex], NoRecord for undefined
At(wts, index) ==
  IF index + 1 \in DOMAIN wts THEN wts[index + 1] ELSE NoRecord

\* showPath
showPath(wts, index) ==
  IF At(wts, index) # NoRecord THEN Status("Path", At(wts, index).path)
  ELSE NoStatus

\* path.dirname
Dirname(path) ==
  LET slashes == {i \in 1..Len(path) : path[i] = "/"}
      last == IF slashes = {} THEN 0
              ELSE CHOOSE i \in slashes : \A j \in slashes : j <= i
  IN IF last <= 1 THEN SubSeq(path, 1, last) ELSE SubSeq(path, 1, last - 1)

\* path.join of a directory and a name
Join(dir, name) ==
  IF dir # <<>> /\ dir[Len(dir)] = "/" THEN dir \o name
  ELSE dir \o <<"/">> \o name

\* A slip of the replacement: only the first `/` is replaced.
SafeBranchNameFirstSlash(branchName) == Replace(branchName, <<"/">>, <<"-">>)

\* branchName.replace(/\//g, '-')
SafeBranchName(branchName) ==
  [i \in DOMAIN branchName |->
     IF branchName[i] = "/" THEN "-" ELSE branchName[i]]

getWorktreePath(root, branchName) ==
  Join(Dirname(root), Basename(root) \o <<"-">> \o SafeBranchName(branchName))

\* git worktree add can succeed only for a free path and a branch that is
\* not checked out in another worktree.
CanAdd(r, path, branch) ==
  /\ \A e \in Range(r) : e.path # path
  /\ \A e \in Range(r) : ~(e.kind = "branch" /\ e.branch = branch)

\* git worktree remove can succeed only for a linked worktree that is there.
CanRemove(r, path) ==
  /\ path # PrimaryPath
  /\ \E e \in Range(r) : e.path = path

Outcomes(possible) == IF possible THEN BOOLEAN ELSE {FALSE}

\* process.exit
Exit(code) ==
  /\ screen' = "destroyed"
  /\ exitCode' = code
  /\ pc' = "done"

\* ------------------------------------------------- commands/new.ts
\* The options newCommand is called with: index.ts passes install and
\* skipLaunch, and never push.
NewCommandOptions(c) ==
  [install |-> c.install, skipLaunch |-> c.skipLaunch, push |-> FALSE]

\* A slip of the last steps: the tool is spawned whatever the check said.
LaunchStepsUnchecked(worktreePath, tool, available) ==
  <<ToolCall(1, "which", worktreePath, tool, Res(available)),
    ToolCall(1, "launch", worktreePath, tool, "ok")>>

\* Steps 8 and 9 of newCommand: isToolAvailable, then launchAITool.
LaunchSteps(worktreePath, tool, available) ==
  <<ToolCall(1, "which", worktreePath, tool, Res(available))>>
    \o (IF available THEN <<ToolCall(1, "launch", worktreePath, tool, "ok")>>
        ELSE <<>>)

\* program.parse() for `wt new`: the command declares the options
\* -i, --install and -s, --skip-launch only, and commander ends the program
\* with `error: unknown option` and code 1 for any other option.
UnknownOption ==
  /\ cmd.name = "new"
  /\ pc = "start"
  /\ cmd.push
  /\ pc' = "done"
  /\ exitCode' = 1
  /\ UNCHANGED <<pureVars, worldVars, uiVars, gitEnv, cmd, mainRepoPath,
                 worktrees, statuses, staleWorktrees, selected, confirmed,
                 calls>>

\* newCommand: getWorktreePath throws for a name that is not valid, before
\* anything is created, and nothing catches it.
NewCommand ==
  \/ UnknownOption
  \/ ~cmd.push /\ NotARepository("new")
  \/ /\ cmd.name = "new"
     /\ pc = "start"
     /\ ~cmd.push
     /\ isGitRepo(cwd, repo)
     /\ LET options == NewCommandOptions(cmd)
            branchName == cmd.identifier
            root == GitShowToplevel(cwd)
            worktreePath == getWorktreePath(root, branchName)
        IN /\ mainRepoPath' = root
           /\ \E created \in Outcomes(CanAdd(repo, worktreePath, branchName)) :
                IF validateBranchName(branchName) # Ok
                  THEN /\ calls' = calls
                       /\ repo' = repo
                       /\ exitCode' = 1
                ELSE IF ~created
                  THEN /\ calls' = Append(calls, Call(1, "create", worktreePath,
                                                      FALSE, "fail"))
                       /\ repo' = repo
                       /\ exitCode' = 1
                  ELSE /\ repo' = Append(repo,
                                    Entry(worktreePath, "branch", branchName))
                       /\ \E pushed, copied, packageManager, installed,
                             toolAvailable \in BOOLEAN,
                             selectedTool \in {"claude", "codex"} :
                            /\ calls' =
                                 calls
                                   \o <<Call(1, "create", worktreePath, FALSE, "ok")>>
                                   \o (IF options.push
                                         THEN <<Call(1, "push", worktreePath, FALSE,
                                                     Res(pushed))>>
                                       ELSE <<>>)
                                   \o <<Call(1, "copy", worktreePath, FALSE,
                                             Res(copied))>>
                                   \o (IF options.install /\ packageManager
                                         THEN <<Call(1, "install", worktreePath,
                                                     FALSE, Res(installed))>>
                                       ELSE <<>>)
                                   \o (IF ~options.skipLaunch
                                         THEN LaunchSteps(worktreePath,
                                                          selectedTool,
                                                          toolAvailable)
                                       ELSE <<>>)
                            /\ exitCode' = IF ~options.skipLaunch /\ ~toolAvailable
                                             THEN 1 ELSE 0
     /\ pc' = "done"
     /\ UNCHANGED <<pureVars, uiVars, cwd, gitEnv, cmd, worktrees, statuses,
                    staleWorktrees, selected, confirmed>>

\* interactiveCommand: the screen is built and the list is loaded
SessionStart ==
  \/ NotARepository("interactive")
  \/ /\ cmd.name = "interactive"
     /\ pc = "start"
     /\ isGitRepo(cwd, repo)
     /\ mainRepoPath' = GitShowToplevel(cwd)
     /\ \E ok \in BOOLEAN :
          /\ calls' = Append(calls, Call(0, "list", <<>>, FALSE, Res(ok)))
          /\ IF ok
               THEN /\ worktrees' = listWorktrees(GitWorktreeListPorcelain(repo))
                    /\ statusBar' = showPath(worktrees', selectedIndex)
                    /\ screen' = "open"
                    /\ focus' = "list"
                    /\ pc' = "session"
                    /\ exitCode' = exitCode
               ELSE /\ statusBar' = Status("Loading", <<>>)
                    /\ Exit(1)
                    /\ UNCHANGED <<worktrees, focus>>
     /\ UNCHANGED <<pureVars, cwd, gitEnv, cmd, statuses, staleWorktrees, selected,
                    confirmed, repo, selectedIndex, moves, tasks>>

\* screen.key(['q', 'C-c'], () => exitScreen())
KeyQuit ==
  /\ Alive
  /\ Exit(0)
  /\ UNCHANGED <<sessionFixed, repo, mainRepoPath, worktrees, focus,
                 statusBar, selectedIndex, moves, tasks>>

\* The questions on the screen: while a question is asked it listens to the
\* keys of the screen, before the key bindings do: enter and y answer yes;
\* escape, q and n answer no.
Asking == {t \in DOMAIN tasks : tasks[t].pc = "ask"}

\* The callback of dialog.ask with yes, up to `await removeWorktree(...)`,
\* for every question in qs.
AnsweredYes(ts, qs) ==
  [t \in DOMAIN ts |->
     IF t \in qs
       THEN Issued([ts[t] EXCEPT !.dialog = "none", !.confirmed = "yes",
                                 !.pc = "remove"],
                   t, "remove", ts[t].path, FALSE)
     ELSE ts[t]]

\* The callback of dialog.ask with no, for every question in qs.
AnsweredNo(ts, qs, st) ==
  [t \in DOMAIN ts |->
     IF t \in qs
       THEN Done([ts[t] EXCEPT !.dialog = "none", !.confirmed = "no"], st)
     ELSE ts[t]]

\* screen.key(['enter'], ...): the questions take the key for yes and start
\* their removals, then exitScreen ends the process; a removal that was
\* started may still be carried out.
KeyEnter ==
  /\ KeysOpen
  /\ At(worktrees, selectedIndex) # NoRecord
  /\ tasks' = AnsweredYes(tasks, Asking)
  /\ statusBar' = IF Asking = {} THEN statusBar
                  ELSE Status("Deleting", <<>>)
  /\ \E gone \in SUBSET {tasks[t].path : t \in Asking} :
       /\ \A q \in gone : CanRemove(repo, q)
       /\ repo' = WithoutPaths(repo, gone)
  /\ Exit(0)
  /\ UNCHANGED <<sessionFixed, mainRepoPath, worktrees, focus,
                 selectedIndex, moves>>

\* worktreeList.on('select', ...)
ListSelect ==
  /\ KeysOpen
  /\ moves < MaxMoves
  /\ moves' = moves + 1
  /\ \E index \in 0..(Len(worktrees) - 1) :
       /\ index # selectedIndex
       /\ selectedIndex' = index
       /\ statusBar' = showPath(worktrees, index)
  /\ UNCHANGED <<sessionFixed, repo, mainRepoPath, worktrees, pc, exitCode,
                 screen, focus, tasks>>

\* pushSelected, up to the await
KeyPush ==
  /\ KeysOpen
  /\ CanStart
  /\ LET wt == At(worktrees, selectedIndex)
         t == Len(tasks) + 1
     IN IF wt = NoRecord \/ ~Truthy(wt.branch)
          THEN /\ statusBar' = Status("No branch to push", <<>>)
               /\ tasks' = Append(tasks,
                             Done(Task("push", "done", "none", <<>>, <<>>),
                                  statusBar'))
          ELSE /\ statusBar' = Status("Pushing", wt.branch)
               /\ tasks' = Append(tasks,
                             Issued(Task("push", "push", "none", wt.path,
                                         wt.branch),
                                    t, "push", wt.path, FALSE))
  /\ UNCHANGED <<sessionFixed, repo, mainRepoPath, worktrees, pc, exitCode,
                 screen, focus, selectedIndex, moves>>

\* pushSelected, after the await
PushDone ==
  /\ Alive
  /\ \E t \in DOMAIN tasks :
       /\ tasks[t].pc = "push"
       /\ \E ok \in BOOLEAN :
            /\ statusBar' = IF ok THEN Status("Pushed", tasks[t].branch)
                            ELSE Status("Error", <<"push">>)
            /\ tasks' = [tasks EXCEPT
                           ![t] = Done([Settled(@, ok) EXCEPT !.failed = ~ok],
                                       statusBar')]
  /\ UNCHANGED <<sessionFixed, repo, mainRepoPath, worktrees, pc, exitCode,
                 screen, focus, selectedIndex, moves>>

\* screen.key(['r'], () => refreshWorktrees()), up to the await
KeyRefresh ==
  /\ KeysOpen
  /\ CanStart
  /\ statusBar' = Status("Loading", <<>>)
  /\ tasks' = Append(tasks,
                Issued(Task("refresh", "list", "none", <<>>, <<>>),
                       Len(tasks) + 1, "list", <<>>, FALSE))
  /\ UNCHANGED <<sessionFixed, repo, mainRepoPath, worktrees, pc, exitCode,
                 screen, focus, selectedIndex, moves>>

\* refreshWorktrees after the await, called from the `r` binding or at the
\* end of deleteSelected: nothing catches its rejection, so the process
\* either dies of it (exit code 1) or carries on, as the runtime decides.
RefreshDone ==
  /\ Alive
  /\ \E t \in DOMAIN tasks :
       /\ tasks[t].pc = "list"
       /\ \E ok \in BOOLEAN :
            IF ok
              THEN /\ worktrees' = listWorktrees(GitWorktreeListPorcelain(repo))
                   /\ statusBar' = showPath(worktrees', selectedIndex)
                   /\ tasks' = [tasks EXCEPT
                                  ![t] = Done(Settled(@, TRUE), statusBar')]
                   /\ UNCHANGED <<pc, exitCode, screen>>
              ELSE /\ tasks' = [tasks EXCEPT
                                  ![t] = Done([Settled(@, FALSE)
                                                 EXCEPT !.failed = TRUE],
                                              statusBar)]
                   /\ UNCHANGED <<worktrees, statusBar>>
                   /\ \/ Exit(1)
                      \/ UNCHANGED <<pc, exitCode, screen>>
  /\ UNCHANGED <<sessionFixed, repo, mainRepoPath, focus, selectedIndex, moves>>

\* launchTool, up to the await
KeyLaunch ==
  /\ KeysOpen
  /\ CanStart
  /\ At(worktrees, selectedIndex) # NoRecord
  /\ \E tool \in {"claude", "codex"} :
       tasks' = Append(tasks,
                  IssuedTool([Task("launch", "which", "none",
                                   At(worktrees, selectedIndex).path, <<>>)
                                EXCEPT !.tool = tool],
                             Len(tasks) + 1, "which"))
  /\ UNCHANGED <<sessionFixed, repo, mainRepoPath, worktrees, pc, exitCode,
                 screen, focus, statusBar, selectedIndex, moves>>

\* launchTool and launchInWorktree, after `await isToolAvailable(tool)`
ToolChecked ==
  /\ Alive
  /\ \E t \in DOMAIN tasks :
       /\ tasks[t].pc = "which"
       /\ \E available \in BOOLEAN :
            IF ~available
              THEN /\ statusBar' = Status("not installed", <<tasks[t].tool>>)
                   /\ tasks' = [tasks EXCEPT
                                  ![t] = Done(Settled(@, FALSE), statusBar')]
                   /\ UNCHANGED <<pc, exitCode, screen>>
              ELSE /\ tasks' = [tasks EXCEPT
                                  ![t] = Settled(IssuedTool(Settled(@, TRUE), t,
                                                            "launch"), TRUE)]
                   /\ Exit(0)
                   /\ UNCHANGED statusBar
  /\ UNCHANGED <<sessionFixed, repo, mainRepoPath, worktrees, focus,
                 selectedIndex, moves>>

\* deleteSelected, up to dialog.ask
KeyDelete ==
  /\ KeysOpen
  /\ CanStart
  /\ LET wt == At(worktrees, selectedIndex)
     IN /\ wt # NoRecord
        /\ IF wt.path = mainRepoPath
             THEN /\ statusBar' = Status("Cannot delete main worktree", <<>>)
                  /\ tasks' = Append(tasks,
                                Done(Task("delete", "done", "none", wt.path,
                                          <<>>), statusBar'))
             ELSE /\ statusBar' = statusBar
                  /\ tasks' = Append(tasks,
                                [Task("delete", "ask", "question", wt.path, <<>>)
                                   EXCEPT !.confirmed = "pending"])
  /\ UNCHANGED <<sessionFixed, repo, mainRepoPath, worktrees, pc, exitCode,
                 screen, focus, selectedIndex, moves>>

\* The key y: every question is answered yes.
KeyYes ==
  /\ KeysOpen
  /\ Asking # {}
  /\ tasks' = AnsweredYes(tasks, Asking)
  /\ LET last == CHOOSE t \in Asking : \A u \in Asking : u <= t
     IN statusBar' = Status("Deleting", tasks[last].path)
  /\ UNCHANGED <<sessionFixed, repo, mainRepoPath, worktrees, pc, exitCode,
                 screen, focus, selectedIndex, moves>>

\* if (selectedIndex > 0) selectedIndex--
Decremented(index) == IF index > 0 THEN index - 1 ELSE index

\* The callback of dialog.ask after `await removeWorktree(wt.path, false)`:
\* on success the list is refreshed, on failure the forced removal starts.
RemoveDone ==
  /\ Alive
  /\ \E t \in DOMAIN tasks :
       /\ tasks[t].pc = "remove"
       /\ \E ok \in Outcomes(CanRemove(repo, tasks[t].path)) :
            IF ok
              THEN /\ repo' = WithoutPaths(repo, {tasks[t].path})
                   /\ selectedIndex' = Decremented(selectedIndex)
                   /\ statusBar' = Status("Loading", <<>>)
                   /\ tasks' = [tasks EXCEPT
                                  ![t] = Issued([Settled(@, TRUE)
                                                   EXCEPT !.pc = "list"],
                                                t, "list", <<>>, FALSE)]
              ELSE /\ tasks' = [tasks EXCEPT
                                  ![t] = Issued([Settled(@, FALSE)
                                                   EXCEPT !.pc = "force"],
                                                t, "remove", @.path, TRUE)]
                   /\ UNCHANGED <<repo, selectedIndex, statusBar>>
  /\ UNCHANGED <<sessionFixed, mainRepoPath, worktrees, pc, exitCode, screen,
                 focus, moves>>

\* The callback of dialog.ask after `await removeWorktree(wt.path, true)`:
\* setStatus('Deleted (forced)') or setStatus('Error: ...'), then
\* refreshWorktrees, which sets the status to 'Loading...' before it awaits.
ForceDone ==
  /\ Alive
  /\ \E t \in DOMAIN tasks :
       /\ tasks[t].pc = "force"
       /\ \E ok \in Outcomes(CanRemove(repo, tasks[t].path)) :
            /\ repo' = IF ok THEN WithoutPaths(repo, {tasks[t].path}) ELSE repo
            /\ tasks' = [tasks EXCEPT
                           ![t] = Issued([Settled(@, ok)
                                            EXCEPT !.pc = "list",
                                                   !.failed = ~ok],
                                         t, "list", <<>>, FALSE)]
  /\ selectedIndex' = Decremented(selectedIndex)
  /\ statusBar' = Status("Loading", <<>>)
  /\ UNCHANGED <<sessionFixed, mainRepoPath, worktrees, pc, exitCode, screen,
                 focus, moves>>

\* screen.key(['n'], ...): the questions take the key for no, then
\* showNewWorktreeForm
KeyNew ==
  /\ KeysOpen
  /\ CanStart
  /\ tasks' = Append(AnsweredNo(tasks, Asking, statusBar),
                     Task("new", "form", "form", <<>>, <<>>))
  /\ focus' = "input"
  /\ UNCHANGED <<sessionFixed, repo, mainRepoPath, worktrees, pc, exitCode,
                 screen, statusBar, selectedIndex, moves>>

\* What the user types into the form.
FormValues == {<<>>, <<"-">>, <<"a">>, <<" ", "c">>}

\* input.on('submit', ...)
FormSubmit ==
  /\ Alive
  /\ \E t \in DOMAIN tasks :
       /\ tasks[t].pc = "form"
       /\ \E typed \in FormValues :
            LET value == Trim(typed)
            IN IF value = <<>>
                 THEN /\ tasks' = [tasks EXCEPT
                                     ![t] = Done([@ EXCEPT !.dialog = "none"],
                                                 statusBar)]
                      /\ focus' = "list"
                      /\ statusBar' = statusBar
               ELSE IF validateBranchName(value) = Ok
                 THEN /\ tasks' = [tasks EXCEPT
                                     ![t] = [@ EXCEPT !.dialog = "selector",
                                                      !.pc = "selector",
                                                      !.branch = value]]
                      /\ UNCHANGED <<focus, statusBar>>
               ELSE /\ statusBar' = Status("Error", <<validateBranchName(value)>>)
                    /\ focus' = "input"
                    /\ tasks' = tasks
  /\ UNCHANGED <<sessionFixed, repo, mainRepoPath, worktrees, pc, exitCode,
                 screen, selectedIndex, moves>>

\* A cancel that does not give the focus back to the list.
FormCancelKeepsFocus ==
  /\ Alive
  /\ \E t \in DOMAIN tasks :
       /\ tasks[t].pc = "form"
       /\ tasks' = [tasks EXCEPT
                      ![t] = Done([@ EXCEPT !.dialog = "none"], statusBar)]
  /\ UNCHANGED <<sessionFixed, repo, mainRepoPath, worktrees, pc, exitCode,
                 screen, focus, statusBar, selectedIndex, moves>>

\* input.on('cancel', ...)
FormCancel ==
  /\ Alive
  /\ \E t \in DOMAIN tasks :
       /\ tasks[t].pc = "form"
       /\ tasks' = [tasks EXCEPT
                      ![t] = Done([@ EXCEPT !.dialog = "none"], statusBar)]
  /\ focus' = "list"
  /\ UNCHANGED <<sessionFixed, repo, mainRepoPath, worktrees, pc, exitCode,
                 screen, statusBar, selectedIndex, moves>>

\* The selectors on the screen: each has bound 1, 2, 3 and escape, and
\* handled is false for it.
Choosing == {t \in DOMAIN tasks : tasks[t].pc = "selector"}

\* The keys 1, 2 and 3: selectTool and createNewWorktree up to
\* `await createWorktree(worktreePath, branchName)`, for every selector.
SelectorKey ==
  /\ KeysOpen
  /\ Choosing # {}
  /\ \E tool \in {"claude", "codex", "skip"} :
       tasks' = [t \in DOMAIN tasks |->
                   IF t \in Choosing
                     THEN LET worktreePath ==
                                getWorktreePath(mainRepoPath, tasks[t].branch)
                          IN Issued([tasks[t] EXCEPT !.dialog = "none",
                                                     !.pc = "create",
                                                     !.tool = tool,
                                                     !.path = worktreePath],
                                    t, "create", worktreePath, FALSE)
                   ELSE tasks[t]]
  /\ LET last == CHOOSE t \in Choosing : \A u \in Choosing : u <= t
     IN statusBar' = Status("Path",
                            getWorktreePath(mainRepoPath, tasks[last].branch))
  /\ UNCHANGED <<sessionFixed, repo, mainRepoPath, worktrees, pc, exitCode,
                 screen, focus, selectedIndex, moves>>

\* The key escape: cancel, for every selector, and no for every question.
KeyEscape ==
  /\ KeysOpen
  /\ Choosing \cup Asking # {}
  /\ tasks' = [t \in DOMAIN tasks |->
                 IF t \in Choosing
                   THEN Done([tasks[t] EXCEPT !.dialog = "none"], statusBar)
                 ELSE AnsweredNo(tasks, Asking, statusBar)[t]]
  /\ focus' = "list"
  /\ UNCHANGED <<sessionFixed, repo, mainRepoPath, worktrees, pc, exitCode,
                 screen, statusBar, selectedIndex, moves>>

\* createNewWorktree after `await createWorktree(...)`
CreateDone ==
  /\ Alive
  /\ \E t \in DOMAIN tasks :
       /\ tasks[t].pc = "create"
       /\ \E ok \in Outcomes(CanAdd(repo, tasks[t].path, tasks[t].branch)) :
            IF ok
              THEN /\ repo' = Append(repo,
                                Entry(tasks[t].path, "branch", tasks[t].branch))
                   /\ statusBar' = Status("Worktree created, copying .env", <<>>)
                   /\ tasks' = [tasks EXCEPT
                                  ![t] = Issued([Settled(@, TRUE)
                                                   EXCEPT !.pc = "copy"],
                                                t, "copy", @.path, FALSE)]
                   /\ focus' = focus
              ELSE /\ repo' = repo
                   /\ statusBar' = Status("Error", <<"create">>)
                   /\ tasks' = [tasks EXCEPT
                                  ![t] = Done([Settled(@, FALSE)
                                                 EXCEPT !.failed = TRUE],
                                              statusBar')]
                   /\ focus' = "list"
  /\ UNCHANGED <<sessionFixed, mainRepoPath, worktrees, pc, exitCode, screen,
                 selectedIndex, moves>>

\* createNewWorktree after `await copyEnvFiles(...)`: on success
\* refreshWorktrees starts and sets the status to 'Loading...'.
CopyDone ==
  /\ Alive
  /\ \E t \in DOMAIN tasks :
       /\ tasks[t].pc = "copy"
       /\ \E ok \in BOOLEAN :
            IF ok
              THEN /\ statusBar' = Status("Loading", <<>>)
                   /\ tasks' = [tasks EXCEPT
                                  ![t] = Issued([Settled(@, TRUE)
                                                   EXCEPT !.pc = "listing"],
                                                t, "list", <<>>, FALSE)]
                   /\ focus' = focus
              ELSE /\ statusBar' = Status("Error", <<"copy">>)
                   /\ tasks' = [tasks EXCEPT
                                  ![t] = Done([Settled(@, FALSE)
                                                 EXCEPT !.failed = TRUE],
                                              statusBar')]
                   /\ focus' = "list"
  /\ UNCHANGED <<sessionFixed, repo, mainRepoPath, worktrees, pc, exitCode,
                 screen, selectedIndex, moves>>

\* createNewWorktree after `await refreshWorktrees()`, whose rejection the
\* catch of createNewWorktree takes.
CreateRefreshDone ==
  /\ Alive
  /\ \E t \in DOMAIN tasks :
       /\ tasks[t].pc = "listing"
       /\ \E ok \in BOOLEAN :
            IF ok
              THEN /\ worktrees' = listWorktrees(GitWorktreeListPorcelain(repo))
                   /\ statusBar' = Status("Created", tasks[t].branch)
                   /\ tasks' = [tasks EXCEPT
                                  ![t] = IF @.tool = "skip"
                                           THEN Done(Settled(@, TRUE), statusBar')
                                         ELSE IssuedTool(
                                                [Settled(@, TRUE)
                                                   EXCEPT !.pc = "which"],
                                                t, "which")]
              ELSE /\ worktrees' = worktrees
                   /\ statusBar' = Status("Error", <<"list">>)
                   /\ tasks' = [tasks EXCEPT
                                  ![t] = Done([Settled(@, FALSE)
                                                 EXCEPT !.failed = TRUE],
                                              statusBar')]
  /\ focus' = "list"
  /\ UNCHANGED <<sessionFixed, repo, mainRepoPath, pc, exitCode, screen,
                 selectedIndex, moves>>

\* ------------------------------------ specification: getWorktreePath
\* The repository roots getWorktreePath is given.
Roots == {PrimaryPath, LinkedPath(<<"a">>), <<"/", "r">>}

InitPath ==
  /\ input \in Names
  /\ output = "none"
  /\ returned = <<>>
  /\ repo = <<Entry(PrimaryPath, "branch", Main)>>
  /\ cwd = PrimaryPath
  /\ gitEnv = NoEnv
  /\ cmd = NoCmd
  /\ pc = "idle"
  /\ mainRepoPath \in Roots
  /\ worktrees = <<>>
  /\ statuses = <<>>
  /\ staleWorktrees = <<>>
  /\ selected = <<>>
  /\ confirmed = "unasked"
  /\ exitCode = -1
  /\ calls = <<>>
  /\ UiIdle

\* getWorktreePath(mainRepoPath, branchName): the message of the Error it
\* throws, or Ok and the path it returns.
CallGetWorktreePath ==
  /\ output = "none"
  /\ output' = validateBranchName(input)
  /\ returned' = IF validateBranchName(input) = Ok
                   THEN getWorktreePath(mainRepoPath, input)
                 ELSE <<>>
  /\ UNCHANGED <<input, worldVars, cliVars, uiVars>>

SpecPath == InitPath /\ [][CallGetWorktreePath]_vars

\* ------------------------------------- utils/git.ts: createWorktree
\* One git command createWorktree runs, and how it ended.
GitCommand(git, newBranch, path, commitish, result) ==
  [git |-> git, newBranch |-> newBranch, path |-> path,
   commitish |-> commitish, result |-> result]

\* git rev-parse --verify <name>: succeeds when the name resolves to an
\* object, as HEAD, as a tag or as a local branch.
GitRevParseVerify(name, env) ==
  \/ name = <<"HEAD">>
  \/ name \in env.tags
  \/ name \in env.heads

\* git check-ref-format --branch: HEAD is not a branch name, and a name
\* holds no space.
GitBranchNameAllowed(name) ==
  /\ name # <<"HEAD">>
  /\ \A i \in DOMAIN name : name[i] # " "

\* git worktree add [-b <newBranch>] -- <path> [<commitish>]: the ways it can
\* end.  Without -b a commitish that is a local branch is checked out as
\* that branch, unless another worktree has it; any other commitish that
\* resolves gives a worktree with a detached HEAD.  With -b the branch is
\* created, from the commitish or from HEAD, unless it exists.
GitWorktreeAdd(add, r, env) ==
  LET failed == [ok |-> FALSE, entry |-> Entry(add.path, "none", Undefined),
                 created |-> {}]
      free == \A e \in Range(r) : e.path # add.path
      possible ==
        IF ~free THEN {}
        ELSE IF Truthy(add.newBranch)
          THEN IF /\ add.newBranch \notin env.heads
                  /\ GitBranchNameAllowed(add.newBranch)
                  /\ (Truthy(add.commitish) =>
                        GitRevParseVerify(add.commitish, env))
                 THEN {[ok |-> TRUE,
                        entry |-> Entry(add.path, "branch", add.newBranch),
                        created |-> {add.newBranch}]}
               ELSE {}
        ELSE IF add.commitish \in env.heads
          THEN IF \A e \in Range(r) :
                    ~(e.kind = "branch" /\ e.branch = add.commitish)
                 THEN {[ok |-> TRUE,
                        entry |-> Entry(add.path, "branch", add.commitish),
                        created |-> {}]}
               ELSE {}
        ELSE IF GitRevParseVerify(add.commitish, env)
          THEN {[ok |-> TRUE,
                 entry |-> Entry(add.path, "detached", Undefined),
                 created |-> {}]}
        ELSE {}
  IN {failed} \cup possible

\* try { git rev-parse --verify <branchName>; return true } catch { false }
branchExists(branchName, env) == GitRevParseVerify(branchName, env)

\* The `worktree add` createWorktree chooses.
createWorktree(worktreePath, branchName, startPoint, exists) ==
  IF exists
    THEN GitCommand("worktree add", Undefined, worktreePath, branchName, "pending")
  ELSE IF Truthy(startPoint)
    THEN GitCommand("worktree add", branchName, worktreePath, startPoint, "pending")
  ELSE GitCommand("worktree add", branchName, worktreePath, Undefined, "pending")

\* ------------------------------------- specification: createWorktree
\* The names createWorktree is given.
CreateNames ==
  {<<>>, <<"-">>, <<".", ".">>, <<"a">>, <<"b">>, <<"v">>, <<"HEAD">>,
   <<"a", "/", "b">>}

\* The arguments of one call.
CreateArgs ==
  [worktreePath : {LinkedPath(<<"a">>), LinkedPath(<<"b">>)},
   branchName : CreateNames,
   startPoint : {Undefined, Main}]

\* The refs of the repository before the call: its local branches (the
\* default branch among them) and its tags; created holds the branches the
\* call has created.
RefEnvs ==
  [heads : {h \cup {Main} : h \in SUBSET {<<"a">>, <<"b">>}},
   tags : SUBSET {<<"a">>, <<"v">>},
   created : {{}}]

CreateRepos ==
  {<<Entry(PrimaryPath, "branch", Main)>>,
   <<Entry(PrimaryPath, "branch", Main),
     Entry(LinkedPath(<<"a">>), "branch", <<"a">>)>>}

InitCreate ==
  /\ input \in CreateArgs
  /\ output = "none"
  /\ returned = <<>>
  /\ repo \in CreateRepos
  /\ cwd = PrimaryPath
  /\ gitEnv \in RefEnvs
  /\ \A e \in Range(repo) : e.branch \in gitEnv.heads
  /\ cmd = NoCmd
  /\ pc = "idle"
  /\ mainRepoPath = <<>>
  /\ worktrees = <<>>
  /\ statuses = <<>>
  /\ staleWorktrees = <<>>
  /\ selected = <<>>
  /\ confirmed = "unasked"
  /\ exitCode = -1
  /\ calls = <<>>
  /\ UiIdle

\* createWorktree(worktreePath, branchName, startPoint): output is the
\* message of the Error validateBranchName throws or Ok, returned the git
\* commands that were run.
CallCreateWorktree ==
  /\ output = "none"
  /\ output' = validateBranchName(input.branchName)
  /\ IF validateBranchName(input.branchName) # Ok
       THEN /\ returned' = <<>>
            /\ UNCHANGED <<repo, gitEnv>>
     ELSE LET exists == branchExists(input.branchName, gitEnv)
              add == createWorktree(input.worktreePath, input.branchName,
                                    input.startPoint, exists)
          IN \E outcome \in GitWorktreeAdd(add, repo, gitEnv) :
               /\ returned' =
                    <<GitCommand("rev-parse --verify", Undefined, Undefined,
                                 input.branchName, Res(exists)),
                      [add EXCEPT !.result = Res(outcome.ok)]>>
               /\ repo' = IF outcome.ok THEN Append(repo, outcome.entry)
                          ELSE repo
               /\ gitEnv' = [gitEnv EXCEPT !.created = outcome.created]
  /\ UNCHANGED <<input, cwd, cmd, pc, mainRepoPath, worktrees, statuses,
                 staleWorktrees, selected, confirmed, exitCode, calls, uiVars>>

SpecCreate == InitCreate /\ [][CallCreateWorktree]_vars

\* -------------------------------------- specification: listWorktrees
\* The branches checked out in the linked worktrees of a listed repository;
\* x/a and refs/heads/a are branch names git accepts.
ListedBranches ==
  {<<"a">>, <<"b">>, <<"x", "/", "a">>, <<"refs/heads/", "a">>}

ListedEntries(name) ==
  {Entry(LinkedPath(name), "branch", b) : b \in ListedBranches}
    \cup {Entry(LinkedPath(name), "detached", Undefined),
          Entry(LinkedPath(name), "broken", Undefined)}

\* The repositories whose listing listWorktrees is given.
ListedRepos ==
  LET a == ListedEntries(<<"a">>)
      b == ListedEntries(<<"b">>)
      all == {<<p>> : p \in PrimaryEntries}
               \cup {<<p, x>> : p \in PrimaryEntries, x \in a \cup b}
               \cup {<<p, x, y>> : p \in PrimaryEntries, x \in a, y \in b}
  IN {r \in all : WellFormed(r)}

InitList ==
  /\ input = <<>>
  /\ output = "none"
  /\ returned = <<>>
  /\ repo \in ListedRepos
  /\ cwd = PrimaryPath
  /\ CliIdle
  /\ UiIdle

CallListWorktrees ==
  /\ output = "none"
  /\ output' = "listed"
  /\ returned' = listWorktrees(GitWorktreeListPorcelain(repo))
  /\ UNCHANGED <<input, worldVars, cliVars, uiVars>>

SpecList == InitList /\ [][CallListWorktrees]_vars

\* ------------------------------------------ utils/env.ts: findEnvFiles
\* File names are built from the character `.`, the letter x and the
\* indivisible words env, example, sample and template.
FileAtoms == {".", "x", "env", "example", "sample", "template"}
FileNames == UNION {[1..n -> FileAtoms] : n \in 1..MaxFileLen}

DotEnv == <<".", "env">>

\* glob('.env*', { cwd: sourceDir, dot: true, nodir: true }) over the files
\* at the top level of sourceDir: `*` matches any run of characters without
\* a `/`, the empty one included.
Glob(files) == SelectSeq(files, LAMBDA file : StartsWith(file, DotEnv))

\* A slip of the filter: names ending with `.template` are let through.
KeepEnvFileTemplates(file) ==
  IF file # DotEnv /\ ~StartsWith(file, DotEnv \o <<".">>) THEN FALSE
  ELSE IF EndsWith(file, <<".", "example">>) \/ EndsWith(file, <<".", "sample">>)
    THEN FALSE
  ELSE TRUE

\* the callback of files.filter
KeepEnvFile(file) ==
  IF file # DotEnv /\ ~StartsWith(file, DotEnv \o <<".">>) THEN FALSE
  ELSE IF \/ EndsWith(file, <<".", "example">>)
          \/ EndsWith(file, <<".", "sample">>)
          \/ EndsWith(file, <<".", "template">>)
    THEN FALSE
  ELSE TRUE

findEnvFiles(files) == SelectSeq(Glob(files), KeepEnvFile)

\* ---------------------------------------- specification: findEnvFiles
\* The source directory holds one top-level file, named input.
InitEnv ==
  /\ input \in FileNames
  /\ output = "none"
  /\ returned = <<>>
  /\ repo = <<Entry(PrimaryPath, "branch", Main)>>
  /\ cwd = PrimaryPath
  /\ gitEnv = NoEnv
  /\ CliIdle
  /\ UiIdle

CallFindEnvFiles ==
  /\ output = "none"
  /\ output' = "found"
  /\ returned' = findEnvFiles(<<input>>)
  /\ UNCHANGED <<input, worldVars, cliVars, uiVars>>

SpecEnv == InitEnv /\ [][CallFindEnvFiles]_vars

\* ------------------------------------------ utils/env.ts: copyEnvFiles
\* What one run of copyEnvFiles has done: the copyFile calls it made, the
\* files it pushed to `copied`, the warnings it printed, and whether it
\* threw.
CopyRun(copyFiles, copied, warnings, threw) ==
  [copyFiles |-> copyFiles, copied |-> copied, warnings |-> warnings,
   threw |-> threw]

\* A loop without the try: the first copy that fails ends it.
RECURSIVE CopyLoopFailFast(_, _, _)
CopyLoopFailFast(envFiles, failing, run) ==
  IF envFiles = <<>> THEN run
  ELSE LET file == Head(envFiles)
       IN IF file \in failing
            THEN CopyRun(Append(run.copyFiles, Call(1, "copyFile", file, FALSE, "fail")),
                         run.copied, run.warnings, TRUE)
          ELSE CopyLoopFailFast(Tail(envFiles), failing,
                 CopyRun(Append(run.copyFiles, Call(1, "copyFile", file, FALSE, "ok")),
                         Append(run.copied, file), run.warnings, FALSE))

copyEnvFilesFailFast(files, failing) ==
  CopyLoopFailFast(findEnvFiles(files), failing, CopyRun(<<>>, <<>>, <<>>, FALSE))

\* for (const file of envFiles) { try { copyFile; push } catch { warn } }
RECURSIVE CopyLoop(_, _, _)
CopyLoop(envFiles, failing, run) ==
  IF envFiles = <<>> THEN run
  ELSE LET file == Head(envFiles)
       IN CopyLoop(Tail(envFiles), failing,
            IF file \in failing
              THEN CopyRun(Append(run.copyFiles,
                                  Call(1, "copyFile", file, FALSE, "fail")),
                           run.copied, Append(run.warnings, file), FALSE)
            ELSE CopyRun(Append(run.copyFiles,
                                Call(1, "copyFile", file, FALSE, "ok")),
                         Append(run.copied, file), run.warnings, FALSE))

\* copyEnvFiles over the top-level files of sourceDir, in glob's order;
\* failing are the files copyFile cannot copy.
copyEnvFiles(files, failing) ==
  CopyLoop(findEnvFiles(files), failing, CopyRun(<<>>, <<>>, <<>>, FALSE))

\* ---------------------------------------- specification: copyEnvFiles
\* The files that may be at the top level of the source directory.
SourceFiles ==
  {DotEnv, DotEnv \o <<".", "x">>, DotEnv \o <<".", "example">>,
   DotEnv \o <<"x">>}

\* Longest listing of the source directory.
MaxFiles == 3

\* The listings of the source directory: no name twice.
SourceDirs ==
  {d \in UNION {[1..n -> SourceFiles] : n \in 0..MaxFiles} :
     \A i, j \in DOMAIN d : d[i] = d[j] => i = j}

InitCopy ==
  /\ input \in [files : SourceDirs, failing : SUBSET SourceFiles]
  /\ output = "none"
  /\ returned = <<>>
  /\ repo = <<Entry(PrimaryPath, "branch", Main)>>
  /\ cwd = PrimaryPath
  /\ CliIdle
  /\ UiIdle

\* copyEnvFiles(sourceDir, destDir): returned is the list it resolves with,
\* calls the copyFile calls, statuses the warnings.
CallCopyEnvFiles ==
  /\ output = "none"
  /\ LET run == copyEnvFiles(input.files, input.failing)
     IN /\ output' = IF run.threw THEN "thrown" ELSE "copied"
        /\ returned' = run.copied
        /\ calls' = run.copyFiles
        /\ statuses' = run.warnings
  /\ UNCHANGED <<input, worldVars, gitEnv, cmd, pc, mainRepoPath, worktrees,
                 staleWorktrees, selected, confirmed, exitCode, uiVars>>

SpecCopy == InitCopy /\ [][CallCopyEnvFiles]_vars

\* ------------------------------- specification: list and clean compared
\* The statuses listCommand shows for the records, by getWorktreeStatus.
ListStatuses(wts, root, r, dir, env) ==
  [i \in DOMAIN wts |->
     getWorktreeStatus(wts[i].branch, wts[i].detached, wts[i].path = root,
                       r, dir, env)]

InitClassify ==
  /\ input = <<>>
  /\ output = "none"
  /\ returned = <<>>
  /\ repo \in Repos
  /\ cwd \in StartDirs(repo)
  /\ gitEnv \in GitEnvs
  /\ cmd = NoCmd
  /\ pc = "idle"
  /\ mainRepoPath = <<>>
  /\ worktrees = <<>>
  /\ statuses = <<>>
  /\ staleWorktrees = <<>>
  /\ selected = <<>>
  /\ confirmed = "unasked"
  /\ exitCode = -1
  /\ calls = <<>>
  /\ UiIdle

\* The loop of listCommand and the loop of cleanCommand over the same
\* records, with the same answers to the queries.
CallClassify ==
  /\ output = "none"
  /\ output' = "classified"
  /\ LET root == GitShowToplevel(cwd)
         wts == listWorktrees(GitWorktreeListPorcelain(repo))
     IN /\ mainRepoPath' = root
        /\ worktrees' = wts
        /\ statuses' = ListStatuses(wts, root, repo, cwd, gitEnv)
        /\ staleWorktrees' = FindStale(wts, root, repo, cwd, gitEnv)
  /\ UNCHANGED <<input, returned, worldVars, gitEnv, cmd, pc, selected,
                 confirmed, exitCode, calls, uiVars>>

SpecClassify == InitClassify /\ [][CallClassify]_vars

\* --------------------------------------- specification: isBranchMerged
\* The markers git puts before a branch of the listing: none, `* ` for the
\* branch of the current worktree, `+ ` for a branch of another worktree.
Markers == {<<" ", " ">>, <<"*", " ">>, <<"+", " ">>}

MergedBranches == {<<"a">>, <<"b">>, Main}

\* The listings of `git branch --merged <default>`: every branch at most
\* once, at most one of them current, and a last empty line.
MergedListings ==
  {{listed[b] \o b : b \in DOMAIN listed} \cup {<<>>} :
     listed \in {f \in UNION {[bs -> Markers] : bs \in SUBSET MergedBranches} :
                   \A b, c \in DOMAIN f :
                     f[b] = <<"*", " ">> /\ f[c] = <<"*", " ">> => b = c}}

InitMerged ==
  /\ input \in [branchName : {<<"a">>, <<"b">>},
                 stdout : MergedListings,
                 fails : BOOLEAN]
  /\ output = "none"
  /\ returned = <<>>
  /\ repo = <<Entry(PrimaryPath, "branch", Main)>>
  /\ cwd = PrimaryPath
  /\ CliIdle
  /\ UiIdle

\* isBranchMerged(branchName): output is "true" or "false".
CallIsBranchMerged ==
  /\ output = "none"
  /\ output' = IF isBranchMerged(input.branchName, input.stdout, input.fails)
                 THEN "true" ELSE "false"
  /\ UNCHANGED <<input, returned, worldVars, cliVars, uiVars>>

SpecMerged == InitMerged /\ [][CallIsBranchMerged]_vars

Next ==
  \/ ListCommand
  \/ CleanScan
  \/ CleanSelect
  \/ CleanConfirm
  \/ RemoveFind
  \/ RemoveConfirm
  \/ RemoveDo
  \/ NewCommand
  \/ SessionStart
  \/ KeyQuit
  \/ KeyEnter
  \/ ListSelect
  \/ KeyPush
  \/ PushDone
  \/ KeyRefresh
  \/ RefreshDone
  \/ KeyLaunch
  \/ ToolChecked
  \/ KeyDelete
  \/ KeyYes
  \/ RemoveDone
  \/ ForceDone
  \/ KeyNew
  \/ FormSubmit
  \/ FormCancel
  \/ SelectorKey
  \/ KeyEscape
  \/ CreateDone
  \/ CopyDone
  \/ CreateRefreshDone

Spec == Init /\ [][Next]_vars

\* ---------------------------------------------------------------- C4
IsBlank(s) == \A i \in 1..Len(s) : s[i] = " "
HasDotDot(s) == \E i \in 1..(Len(s) - 1) : s[i] = "." /\ s[i + 1] = "."
BeginsWithDash(s) == Len(s) >= 1 /\ s[1] = "-"

\* C4: validateBranchName throws exactly for the names that contain `..`,
\* begin with `-`, are empty or whitespace-only, or are longer than 250
\* characters; it accepts every other name.
C4_ValidateRejectsExactly ==
  output # "none" =>
    ((output # Ok) <=>
       (HasDotDot(input) \/ BeginsWithDash(input) \/ IsBlank(input)
          \/ StrLen(input) > 250))

\* A name with `..` in the middle has been rejected for it.
C4_Witness ==
  /\ output = ErrDots
  /\ ~StartsWith(input, <<".", ".">>)
  /\ HasDotDot(input)

\* ---------------------------------------------------------------- C1
\* The requests of a run, each with the external operations it has issued:
\* the command's own, and one for every handler of the session.
Requests == {calls} \cup {tasks[t].ops : t \in DOMAIN tasks}

AllCalls == UNION {Range(s) : s \in Requests}

\* C1: no removal call is ever issued whose path is the primary worktree,
\* whatever the identifier, the flags, the selection and the start directory.
C1_PrimaryNeverRemoved ==
  \A c \in AllCalls : c.op = "remove" => c.path # PrimaryPath

\* ---------------------------------------------------------------- C2
\* The records of linked worktrees on a branch that is merged into the
\* default branch, the merged-branch query having answered.
MergedRecords ==
  {i \in DOMAIN worktrees :
     /\ worktrees[i].path # PrimaryPath
     /\ ~worktrees[i].detached
     /\ worktrees[i].branch \in gitEnv.merged
     /\ ~gitEnv.mergedFails}

\* C2: every non-primary, non-detached worktree whose branch is merged into
\* the default branch is classified `merged` by the list command, and is a
\* candidate with reason `merged` in the clean command, whatever the remote
\* holds.
C2_MergedIsMerged ==
  /\ (cmd.name = "list" /\ pc = "done") =>
       \A i \in MergedRecords : statuses[i] = "merged"
  /\ (cmd.name = "clean" /\ pc # "start") =>
       \A i \in MergedRecords :
         [wt |-> worktrees[i], reason |-> "merged"] \in Range(staleWorktrees)

RemovalsOf(cs) == {i \in DOMAIN cs : cs[i].op = "remove"}

Paths(r) == {r[i].path : i \in DOMAIN r}

\* A confirmation that is pending or was declined has issued no removal, and
\* in the commands the worktrees are those that were listed.
C5_Declined ==
  /\ confirmed \in {"pending", "no"} =>
       /\ RemovalsOf(calls) = {}
       /\ Paths(repo) = Paths(worktrees)
  /\ \A t \in DOMAIN tasks :
       tasks[t].confirmed \in {"pending", "no"} => RemovalsOf(tasks[t].ops) = {}

\* A step that issues a removal call, or after which a worktree is gone, is
\* one of a request that has its yes, or of the remove command with --force.
C5_Step ==
  /\ RemovalsOf(calls') # RemovalsOf(calls) =>
       \/ cmd.name = "remove" /\ cmd.force
       \/ confirmed' = "yes"
  /\ \A t \in DOMAIN tasks' :
       RemovalsOf(tasks'[t].ops)
           # (IF t \in DOMAIN tasks THEN RemovalsOf(tasks[t].ops) ELSE {})
         => tasks'[t].confirmed = "yes"
  /\ \A q \in Paths(repo) \ Paths(repo') :
       \/ cmd.name = "remove" /\ cmd.force
       \/ confirmed' = "yes"
       \/ \E t \in DOMAIN tasks' :
            tasks'[t].confirmed = "yes" /\ tasks'[t].path = q

\* C5: no removal call is issued before the user has confirmed it, unless
\* --force was given: while the confirmation of the remove command, the clean
\* command or the interactive delete is pending or declined, removeWorktree
\* has not been invoked and no worktree is gone.
C5_ConfirmedBeforeRemoval == [](C5_Declined) /\ [][C5_Step]_vars

\* In one session a delete was declined and left the worktree alone, and a
\* second delete of it was confirmed and has removed it.
C5_Witness ==
  \E t, u \in DOMAIN tasks :
    /\ tasks[t].kind = "delete"
    /\ tasks[t].confirmed = "no"
    /\ tasks[t].ops = <<>>
    /\ tasks[u].kind = "delete"
    /\ tasks[u].confirmed = "yes"
    /\ tasks[u].path = tasks[t].path
    /\ \E i \in RemovalsOf(tasks[u].ops) : tasks[u].ops[i].result = "ok"
    /\ tasks[u].path \notin Paths(repo)

\* ---------------------------------------------------------------- C6
\* C6: when the remote-branch listing or the merged-branch listing fails,
\* the listing completes and every non-primary, non-detached branch worktree
\* is classified `active`.
C6_QueryFailureIsActive ==
  (cmd.name = "list" /\ pc = "done"
     /\ (gitEnv.remoteFails \/ gitEnv.mergedFails)) =>
    \A i \in DOMAIN worktrees :
      (worktrees[i].path # mainRepoPath /\ ~worktrees[i].detached
         /\ Truthy(worktrees[i].branch))
        => statuses[i] = "active"

\* ---------------------------------------------------------------- C7
\* C7: a handler of the session in which an external operation has failed
\* has, once it has finished, no dialog open, and the status bar it leaves
\* shows the error.
C7_FailureShowsError ==
  \A t \in DOMAIN tasks :
    (tasks[t].pc = "done" /\ tasks[t].failed) =>
      /\ screen = "open"
      /\ tasks[t].dialog = "none"
      /\ tasks[t].endStatus.kind = "Error"

\* ---------------------------------------------------------------- C8
\* The handlers that await a worktree create, a worktree remove or a push.
Mutating ==
  {t \in DOMAIN tasks : tasks[t].pc \in {"create", "remove", "force", "push"}}

\* C8: in a session no two worktree-mutating operations are in flight at the
\* same time.
C8_OneMutationInFlight == Cardinality(Mutating) <= 1

\* ---------------------------------------------------------------- C9
\* The removal calls of a request for one path.
RemovalsFor(s, path) == {i \in RemovalsOf(s) : s[i].path = path}

\* C9: in every request the removal calls for a worktree are one plain call,
\* or a plain call that failed followed by one forced call; every other
\* external operation is issued at most once.
C9_NoRetries ==
  \A s \in Requests :
    /\ \A path \in {c.path : c \in Range(s)} :
         LET rs == RemovalsFor(s, path)
         IN /\ Cardinality(rs) <= 2
            /\ Cardinality(rs) = 1 => \A i \in rs : ~s[i].force
            /\ \A i, j \in rs :
                 i < j => /\ ~s[i].force
                          /\ s[i].result = "fail"
                          /\ s[j].force
    /\ \A op \in {"create", "push", "copy", "install", "list", "prune", "launch"} :
         Cardinality({i \in DOMAIN s : s[i].op = op}) <= 1

\* The clean command has removed one worktree at the first call and another
\* by the forced call after the plain one failed.
C9_Witness ==
  /\ cmd.name = "clean"
  /\ \E i, j, k \in DOMAIN calls :
       /\ i < j
       /\ calls[i].op = "remove" /\ ~calls[i].force /\ calls[i].result = "fail"
       /\ calls[j].op = "remove" /\ calls[j].force /\ calls[j].result = "ok"
       /\ calls[j].path = calls[i].path
       /\ calls[k].op = "remove" /\ ~calls[k].force /\ calls[k].result = "ok"

\* --------------------------------------------------------------- C10
\* With no handler in progress the session is browsing: no dialog is open
\* and the list has the focus; a handler that has finished has no dialog.
C10_Browsing ==
  /\ \A t \in DOMAIN tasks : tasks[t].pc = "done" => tasks[t].dialog = "none"
  /\ (Alive /\ \A t \in DOMAIN tasks : tasks[t].pc = "done") =>
       /\ focus = "list"
       /\ \A t \in DOMAIN tasks : tasks[t].dialog = "none"

C11_NotARepositoryIsFatal ==
  cwd = Outside =>
    /\ pc \in {"start", "done"}
    /\ pc = "done" => exitCode = 1
    /\ calls = <<>>
    /\ mainRepoPath = <<>>
    /\ worktrees = <<>>
    /\ gitEnv = NoEnv
    /\ screen = "none"
    /\ tasks = <<>>

\* The interactive command has ended with code 1 outside a repository.
C11_Witness ==
  /\ cwd = Outside
  /\ cmd.name = "interactive"
  /\ pc = "done"
  /\ exitCode = 1

\* --------------------------------------------------------------- C12
\* A branch of the same name exists on the remote.
OnRemote(branch) == (<<"origin", "/">> \o branch) \in gitEnv.remote

\* C12: in a finished list, with the remote listing answered, a non-primary,
\* non-detached worktree on a branch that is not merged is `local only`
\* exactly when the remote has no branch of that name and `active`
\* otherwise; a longer remote name ending in `/<branch>` does not count.
C12_LocalOnlyIffAbsent ==
  (cmd.name = "list" /\ pc = "done" /\ ~gitEnv.remoteFails) =>
    \A i \in DOMAIN worktrees :
      (/\ worktrees[i].path # PrimaryPath
       /\ ~worktrees[i].detached
       /\ Truthy(worktrees[i].branch)
       /\ worktrees[i].branch \notin gitEnv.merged)
        => statuses[i] = (IF OnRemote(worktrees[i].branch) THEN "active"
                          ELSE "local only")

\* --------------------------------------------------------------- C13
\* A name validation has to reject.
Invalid(name) ==
  HasDotDot(name) \/ BeginsWithDash(name) \/ IsBlank(name) \/ StrLen(name) > 250

Creations(cs) == {i \in DOMAIN cs : cs[i].op = "create"}

\* No creation call was issued for a name that is not valid, and no
\* worktree is on a branch of such a name.
C13_NothingCreated ==
  /\ (cmd.name = "new" /\ Invalid(cmd.identifier)) =>
       /\ Creations(calls) = {}
       /\ pc = "done" => exitCode = 1
  /\ \A t \in DOMAIN tasks :
       Creations(tasks[t].ops) # {} => ~Invalid(tasks[t].branch)
  /\ \A e \in Range(repo) : e.kind = "branch" => ~Invalid(e.branch)

\* The status bar takes the message of a rejected name.
RejectedNow ==
  /\ statusBar' # statusBar
  /\ statusBar'.kind = "Error"
  /\ statusBar'.text \in {<<ErrEmpty>>, <<ErrDash>>, <<ErrDots>>, <<ErrLong>>}

\* When the form rejects a name, the form stays open with the focus in its
\* input, the screen is open, and nothing was issued or created.
C13_Step ==
  RejectedNow =>
    /\ screen' = "open"
    /\ focus' = "input"
    /\ repo' = repo
    /\ \E t \in DOMAIN tasks :
         /\ tasks[t].pc = "form"
         /\ tasks'[t].pc = "form"
         /\ tasks'[t].dialog = "form"
    /\ \A t \in DOMAIN tasks' : t \in DOMAIN tasks /\ tasks'[t].ops = tasks[t].ops

\* C13: a branch name that fails validation never leads to a creation call:
\* `wt new` ends with code 1 before any worktree is added; in the session
\* the error is shown and the user is still at the branch-name prompt.
C13_InvalidNameCreatesNothing == [](C13_NothingCreated) /\ [][C13_Step]_vars

\* The form of a session has rejected a name and is still open.
C13_Witness ==
  /\ Alive
  /\ statusBar = Status("Error", <<ErrDash>>)
  /\ focus = "input"
  /\ \E t \in DOMAIN tasks : tasks[t].pc = "form" /\ tasks[t].dialog = "form"

\* --------------------------------------------------------------- C14
\* The position of the last `/` of a path.
LastSlash(path) ==
  LET slashes == {i \in DOMAIN path : path[i] = "/"}
  IN IF slashes = {} THEN 0 ELSE CHOOSE i \in slashes : \A j \in slashes : j <= i

\* C14: for a valid branch name the worktree path is the root's parent
\* directory, a `/`, the root's last component, a `-` and the branch name
\* with every `/` replaced by `-`; that last component holds no `/`, so the
\* path is a direct child of the root's parent.
C14_SiblingPath ==
  output = Ok =>
    LET k == LastSlash(mainRepoPath)
        parent == SubSeq(mainRepoPath, 1, k - 1)
        base == SubSeq(mainRepoPath, k + 1, Len(mainRepoPath))
        name == base \o <<"-">>
                  \o [i \in DOMAIN input |->
                        IF input[i] = "/" THEN "-" ELSE input[i]]
    IN /\ returned = parent \o <<"/">> \o name
       /\ \A i \in DOMAIN name : name[i] # "/"
       /\ LastSlash(returned) = k

\* The path for the branch a/a/ next to /c/r.
C14_Witness ==
  /\ output = Ok
  /\ mainRepoPath = PrimaryPath
  /\ input = <<"a", "/", "/">>
  /\ returned = <<"/", "c", "/", "r", "-", "a", "-", "-">>

\* --------------------------------------------------------------- C15
\* C15: a top-level file is among the files found for copying exactly when
\* its name is `.env` or begins with `.env.`, and does not end with
\* `.example`, `.sample` or `.template`.
C15_EnvFileSelection ==
  output = "found" =>
    LET named == input = <<".", "env">> \/ StartsWith(input, <<".", "env", ".">>)
        isTemplate == \E word \in {"example", "sample", "template"} :
                        /\ Len(input) >= 2
                        /\ input[Len(input)] = word
                        /\ input[Len(input) - 1] = "."
    IN /\ returned \in {<<>>, <<input>>}
       /\ returned = <<input>> <=> named /\ ~isTemplate

\* `.env.x.template` is left out.
C15_Witness ==
  /\ output = "found"
  /\ input = <<".", "env", ".", "x", ".", "template">>
  /\ returned = <<>>

\* `.env.template.x` is found.
C15_WitnessOther ==
  /\ output = "found"
  /\ input = <<".", "env", ".", "template", ".", "x">>
  /\ returned = <<input>>

\* --------------------------------------------------------------- C16
\* The calls of a request that check for, or spawn, an assistant.
ToolCalls(s) == {i \in DOMAIN s : s[i].op \in {"which", "launch"}}

\* C16: an assistant is spawned only right after the check for that same
\* tool answered that it is there, never after --skip-launch or Skip; and
\* when the check answers that the tool is missing, the request has issued
\* no removal and the worktree it created is still there, unless a removal
\* of another request took it.
C16_LaunchOnlyWhenAvailable ==
  /\ \A s \in Requests : \A i \in DOMAIN s :
       /\ i \in ToolCalls(s) => s[i].tool \in {"claude", "codex"}
       /\ s[i].op = "launch" =>
            /\ i > 1
            /\ s[i - 1].op = "which"
            /\ s[i - 1].tool = s[i].tool
            /\ s[i - 1].result = "ok"
       /\ s[i].op = "which" /\ s[i].result = "fail" =>
            /\ \A j \in DOMAIN s : s[j].op # "remove"
            /\ \A j \in 1..(i - 1) :
                 s[j].op = "create" /\ s[j].result = "ok" =>
                   \/ s[j].path \in Paths(repo)
                   \/ \E c \in AllCalls : c.op = "remove" /\ c.path = s[j].path
  /\ cmd.name = "new" /\ cmd.skipLaunch => ToolCalls(calls) = {}
  /\ \A t \in DOMAIN tasks : tasks[t].tool = "skip" => ToolCalls(tasks[t].ops) = {}

\* `wt new` has created the worktree and found the chosen tool missing: the
\* command ends with code 1 and the worktree is there.
C16_Witness ==
  /\ cmd.name = "new"
  /\ pc = "done"
  /\ exitCode = 1
  /\ \E i, j \in DOMAIN calls :
       /\ calls[i].op = "create" /\ calls[i].result = "ok"
       /\ calls[j].op = "which" /\ calls[j].result = "fail"
       /\ calls[i].path \in Paths(repo)
  /\ \A c \in Range(calls) : c.op # "launch"

\* The wizard of the session has created a worktree and found the tool
\* missing; the session goes on.
C16_WitnessSession ==
  /\ Alive
  /\ \E t \in DOMAIN tasks :
       /\ tasks[t].kind = "new"
       /\ tasks[t].pc = "done"
       /\ \E i \in DOMAIN tasks[t].ops :
            tasks[t].ops[i].op = "which" /\ tasks[t].ops[i].result = "fail"
       /\ tasks[t].path \in Paths(repo)

\* --------------------------------------------------------------- C17
\* C17: when `wt new <branch-name> --push`, run inside a repository with a
\* valid name, has ended, it has tried to create the worktree and, the
\* worktree created, a push was attempted after the creation.
C17_PushPushes ==
  /\ cmd.name = "new"
  /\ cmd.push
  /\ pc = "done"
  /\ isGitRepo(cwd, repo)
  /\ validateBranchName(cmd.identifier) = Ok
  => \E i \in DOMAIN calls :
       /\ calls[i].op = "create"
       /\ \/ calls[i].result = "fail"
          \/ \E j \in DOMAIN calls : j > i /\ calls[j].op = "push"

\* --------------------------------------------------------------- C18
\* A worktree that may be offered by clean: not the primary one, on a
\* branch, and that branch merged into the default branch or absent from
\* the remote.
Stale(wt) ==
  /\ wt.path # PrimaryPath
  /\ ~wt.detached
  /\ ~wt.bare
  /\ Truthy(wt.branch)
  /\ \/ wt.branch \in gitEnv.merged \cup {Main}
     \/ ~OnRemote(wt.branch)

\* C18: in the clean command every candidate is a stale worktree, what is
\* selected was offered, a removal call is issued only after the yes and only
\* for a selected worktree, and an empty selection or a declined confirmation
\* leaves every worktree in place.
C18_OnlyChosenRemoved ==
  cmd.name = "clean" =>
    /\ \A x \in Range(staleWorktrees) : Stale(x.wt)
    /\ Range(selected) \subseteq Range(staleWorktrees)
    /\ \A i \in RemovalsOf(calls) :
         /\ confirmed = "yes"
         /\ \E x \in Range(selected) : x.wt.path = calls[i].path
    /\ (pc = "done" /\ (selected = <<>> \/ confirmed = "no")) =>
         /\ RemovalsOf(calls) = {}
         /\ Paths(worktrees) \subseteq Paths(repo)

\* --------------------------------------------------------------- C19
\* C19: listWorktrees returns one record per entry of the listing, in the
\* order of the listing and with distinct paths; a record has the path, the
\* branch (without `refs/heads/`), the bare flag and the detached flag of its
\* own entry, and no branch when the entry is detached.
C19_OneRecordPerEntry ==
  output = "listed" =>
    /\ Len(returned) = Len(repo)
    /\ \A i \in DOMAIN returned :
         /\ returned[i].path = repo[i].path
         /\ returned[i].bare = (repo[i].kind = "bare")
         /\ returned[i].detached = (repo[i].kind = "detached")
         /\ returned[i].branch = (IF repo[i].kind = "branch" THEN repo[i].branch
                                  ELSE Undefined)
         /\ returned[i].detached => returned[i].branch = Undefined
    /\ \A i, j \in DOMAIN returned : returned[i].path = returned[j].path => i = j

\* A bare primary entry, a worktree on the branch refs/heads/a and a detached
\* worktree have been listed.
C19_Witness ==
  /\ output = "listed"
  /\ Len(returned) = 3
  /\ returned[1].bare
  /\ returned[2].branch = <<"refs/heads/", "a">>
  /\ returned[3].detached
  /\ ~returned[2].detached /\ ~returned[3].bare

\* --------------------------------------------------------------- C20
\* The place of a step in the order of `wt new`.
StepRank(op) ==
  CASE op = "create" -> 1
    [] op = "push" -> 2
    [] op = "copy" -> 3
    [] op = "install" -> 4
    [] op = "which" -> 5
    [] op = "launch" -> 6
    [] OTHER -> 0

\* The positions of the calls of one step.
StepsOf(cs, op) == {i \in DOMAIN cs : cs[i].op = op}

\* C20: when `wt new`, run inside a repository with a valid name, has ended,
\* its steps were issued in the order create, push, copy, install, check and
\* launch, each settled before the next; a failed creation is the only step
\* and ends the command with code 1; after a successful creation the push
\* runs when --push was given, the copy runs, and the choice of the tool runs
\* unless --skip-launch was given, whatever the steps before them answered.
C20_StepsInOrder ==
  /\ cmd.name = "new"
  /\ pc = "done"
  /\ isGitRepo(cwd, repo)
  /\ validateBranchName(cmd.identifier) = Ok
  => /\ calls # <<>>
     /\ calls[1].op = "create"
     /\ \A i \in DOMAIN calls : calls[i].result \in {"ok", "fail"}
     /\ \A i, j \in DOMAIN calls :
          i < j => 0 < StepRank(calls[i].op)
                     /\ StepRank(calls[i].op) < StepRank(calls[j].op)
     /\ calls[1].result = "fail" => Len(calls) = 1 /\ exitCode = 1
     /\ calls[1].result = "ok" =>
          /\ cmd.push <=> StepsOf(calls, "push") # {}
          /\ StepsOf(calls, "copy") # {}
          /\ StepsOf(calls, "install") # {} => cmd.install
          /\ cmd.skipLaunch <=> StepsOf(calls, "which") = {}

\* --------------------------------------------------------------- C21
\* The removal calls of the command, in the order they were issued.
RemovalCalls == SelectSeq(calls, LAMBDA c : c.op = "remove")

\* C21: in the remove command, without --force no forced removal is issued
\* and a failed plain removal ends the command with code 1; with --force the
\* user is never asked, the first removal is a plain one, a forced one is
\* issued only after the plain one failed, and when the forced one fails too
\* the command ends with code 1.
C21_FallbackOnlyWithForce ==
  cmd.name = "remove" =>
    LET rs == RemovalCalls
    IN /\ Len(rs) <= 2
       /\ rs # <<>> => ~rs[1].force /\ pc = "done"
       /\ Len(rs) = 2 => /\ rs[1].result = "fail"
                         /\ rs[2].force
                         /\ rs[2].path = rs[1].path
       /\ ~cmd.force =>
            /\ \A i \in DOMAIN rs : ~rs[i].force
            /\ (rs # <<>> /\ rs[1].result = "fail") => exitCode = 1
       /\ cmd.force =>
            /\ confirmed = "unasked"
            /\ (rs # <<>> /\ rs[1].result = "fail") => Len(rs) = 2
            /\ (Len(rs) = 2 /\ rs[2].result = "fail") => exitCode = 1
            /\ (Len(rs) = 2 /\ rs[2].result = "ok") => exitCode = 0

\* `wt remove --force`: the plain removal and the forced one have failed.
C21_Witness ==
  /\ cmd.name = "remove"
  /\ cmd.force
  /\ Len(RemovalCalls) = 2
  /\ RemovalCalls[1].result = "fail"
  /\ RemovalCalls[2].result = "fail"
  /\ exitCode = 1
  /\ RemovalCalls[1].path # PrimaryPath

\* `wt remove` without --force: the plain removal failed and nothing else
\* was tried.
C21_WitnessPlain ==
  /\ cmd.name = "remove"
  /\ ~cmd.force
  /\ confirmed = "yes"
  /\ Len(RemovalCalls) = 1
  /\ RemovalCalls[1].result = "fail"
  /\ exitCode = 1

\* --------------------------------------------------------------- C22
\* The `worktree add` commands among the git commands that were run.
Adds == SelectSeq(returned, LAMBDA c : c.git = "worktree add")

\* C22: createWorktree runs no git command for a name validation rejects;
\* for a valid name it runs exactly one `worktree add`: when the branch
\* exists locally, without -b, and a worktree that was created is on that
\* branch and no branch was created; otherwise with -b for that name, from
\* the start point when one is given and from HEAD when not, and a worktree
\* that was created is on the new branch.
C22_OneWorktreeAdd ==
  output \notin {"none"} =>
    IF output # Ok THEN returned = <<>> /\ gitEnv.created = {}
    ELSE /\ Len(Adds) = 1
         /\ LET add == Adds[1]
                created == repo[Len(repo)]
            IN IF input.branchName \in gitEnv.heads
                 THEN /\ add.newBranch = Undefined
                      /\ add.commitish = input.branchName
                      /\ gitEnv.created = {}
                      /\ add.result = "ok" =>
                           /\ created.kind = "branch"
                           /\ created.branch = input.branchName
               ELSE /\ add.newBranch = input.branchName
                    /\ add.commitish = input.startPoint
                    /\ add.result = "ok" =>
                         /\ gitEnv.created = {input.branchName}
                         /\ created.kind = "branch"
                         /\ created.branch = input.branchName

\* --------------------------------------------------------------- C23
\* The files of the source directory that are selected for copying.
SelectedFiles == findEnvFiles(input.files)

\* C23: copyEnvFiles returns whatever copies fail: it has tried every
\* selected file once, in the order of selection, has warned about the files
\* that could not be copied, and has returned the files that could, in the
\* order of selection.
C23_CopyFailuresAreWarnings ==
  output # "none" =>
    /\ output = "copied"
    /\ Len(calls) = Len(SelectedFiles)
    /\ \A i \in DOMAIN calls :
         /\ calls[i].path = SelectedFiles[i]
         /\ calls[i].result = (IF SelectedFiles[i] \in input.failing THEN "fail"
                               ELSE "ok")
    /\ returned = SelectSeq(SelectedFiles, LAMBDA f : f \notin input.failing)
    /\ statuses = SelectSeq(SelectedFiles, LAMBDA f : f \in input.failing)

\* The first of two selected files could not be copied and the second was.
C23_Witness ==
  /\ output = "copied"
  /\ Len(SelectedFiles) = 2
  /\ SelectedFiles[1] \in input.failing
  /\ returned = <<SelectedFiles[2]>>
  /\ statuses = <<SelectedFiles[1]>>

\* --------------------------------------------------------------- C24
\* Whether clean offers a record with a reason.
Offered(wt, reason) == [wt |-> wt, reason |-> reason] \in Range(staleWorktrees)

\* C24: over the same records and the same answers of the queries, clean
\* offers a worktree with reason `merged` exactly when list shows it as
\* merged, and with reason `local-only` exactly when list shows it as
\* local only; a worktree shown as main, detached, unknown or active is not
\* offered, and nothing else is offered.
C24_ListAndCleanAgree ==
  output = "classified" =>
    /\ \A i \in DOMAIN worktrees :
         /\ Offered(worktrees[i], "merged") <=> statuses[i] = "merged"
         /\ Offered(worktrees[i], "local-only") <=> statuses[i] = "local only"
         /\ statuses[i] \in {"main", "detached", "unknown", "active"} =>
              \A x \in Range(staleWorktrees) : x.wt # worktrees[i]
    /\ \A x \in Range(staleWorktrees) : x.wt \in Range(worktrees)

\* One worktree is merged and offered as merged, another is local only and
\* offered as local-only, and the branch of the first is not on the remote.
C24_Witness ==
  /\ output = "classified"
  /\ Len(staleWorktrees) = 2
  /\ \E i, j \in DOMAIN worktrees :
       /\ statuses[i] = "merged"
       /\ statuses[j] = "local only"
       /\ Offered(worktrees[i], "merged")
       /\ Offered(worktrees[j], "local-only")
       /\ ~OnRemote(worktrees[i].branch)

\* --------------------------------------------------------------- C25
\* The branches of a listing, whatever marker precedes them.
ListedAsMerged ==
  {SubSeq(line, 3, Len(line)) : line \in input.stdout \ {<<>>}}

\* C25: when the listing of merged branches was obtained, isBranchMerged
\* returns true exactly when the branch is in the listing, with no marker,
\* with `* ` or with `+ `.
C25_MergedWhateverMarker ==
  (output # "none" /\ ~input.fails) =>
    (output = "true" <=> input.branchName \in ListedAsMerged)
====
